---- MODULE Spec2Model ----
\* CMS report -> SIF form conversion (tools/cms-to-sif): text extraction,
\* OCR fallback, field extraction, value projection, form filling and the
\* mapping report, modelled from the Python sources.
EXTENDS Integers, Sequences, FiniteSets, TLC

\* ---------------------------------------------------------------------
\* Bounds of the model
\* ---------------------------------------------------------------------
MaxPages == 2
MaxPad == 1

\* ---------------------------------------------------------------------
\* Python values: Optional[str] and str
\* A str is a sequence of one-character strings.  Optional[str] is <<>>
\* for None and <<s>> for the string s, so None and "" stay distinct.
\* ---------------------------------------------------------------------
None == <<>>
Some(s) == <<s>>
NoResult == [kind |-> "none"]

Whitespace == {" ", "\n", "\t"}

RECURSIVE lstrip(_)
lstrip(s) == IF s # <<>> /\ Head(s) \in Whitespace THEN lstrip(Tail(s)) ELSE s

RECURSIVE rstrip(_)
rstrip(s) ==
    IF s # <<>> /\ s[Len(s)] \in Whitespace
    THEN rstrip(SubSeq(s, 1, Len(s) - 1))
    ELSE s

\* str.strip()
strip(s) == rstrip(lstrip(s))

Repeat(c, n) == [i \in 1..n |-> c]

\* "\n".join(chunks)
RECURSIVE join_lines(_)
join_lines(chunks) ==
    IF chunks = <<>> THEN <<>>
    ELSE IF Len(chunks) = 1 THEN chunks[1]
    ELSE chunks[1] \o <<"\n">> \o join_lines(Tail(chunks))

\* ---------------------------------------------------------------------
\* pdf_loader.extract_pdf_text
\* A source document either cannot be opened, or has pages; a page's
\* extract_text() raises, returns None, or returns a text.
\* ---------------------------------------------------------------------
OcrThreshold == 100

PageError == [kind |-> "error", text |-> <<>>]
PageNone == [kind |-> "none", text |-> <<>>]
PageText(t) == [kind |-> "text", text |-> t]

\* text = page.extract_text() or ""   /   except: text_chunks.append("")
page_chunk(page) == IF page.kind = "text" THEN page.text ELSE <<>>

extract_pdf_text_offbyone(pdf_bytes) ==
    IF ~pdf_bytes.opens
    THEN [exc |-> "PdfLoadError", text |-> <<>>, needs_ocr |-> FALSE]
    ELSE LET text_chunks == [i \in 1..Len(pdf_bytes.pages) |-> page_chunk(pdf_bytes.pages[i])]
             full_text == join_lines(text_chunks)
             stripped_text == strip(full_text)
         IN [exc |-> "none", text |-> full_text,
             needs_ocr |-> Len(stripped_text) <= OcrThreshold]

\* an extraction whose except branch appends nothing for a failed page
extract_pdf_text_skip_failed_pages(pdf_bytes) ==
    IF ~pdf_bytes.opens
    THEN [exc |-> "PdfLoadError", text |-> <<>>, needs_ocr |-> FALSE]
    ELSE LET readable == SelectSeq(pdf_bytes.pages, LAMBDA page : page.kind # "error")
             text_chunks == [i \in 1..Len(readable) |-> page_chunk(readable[i])]
             full_text == join_lines(text_chunks)
             stripped_text == strip(full_text)
         IN [exc |-> "none", text |-> full_text,
             needs_ocr |-> Len(stripped_text) < OcrThreshold]

extract_pdf_text(pdf_bytes) ==
    IF ~pdf_bytes.opens
    THEN [exc |-> "PdfLoadError", text |-> <<>>, needs_ocr |-> FALSE]
    ELSE LET text_chunks == [i \in 1..Len(pdf_bytes.pages) |-> page_chunk(pdf_bytes.pages[i])]
             full_text == join_lines(text_chunks)
             stripped_text == strip(full_text)
         IN [exc |-> "none", text |-> full_text,
             needs_ocr |-> Len(stripped_text) < OcrThreshold]

\* ---------------------------------------------------------------------
\* Regular expressions as used by cms_parser (Python re, backtracking,
\* leftmost match, alternatives in order, greedy repetition)
\* ---------------------------------------------------------------------
LowerSeq == <<"a","b","c","d","e","f","g","h","i","j","k","l","m","n","o","p","q","r","s","t","u","v","w","x","y","z">>
UpperSeq == <<"A","B","C","D","E","F","G","H","I","J","K","L","M","N","O","P","Q","R","S","T","U","V","W","X","Y","Z">>
Lower == {LowerSeq[i] : i \in 1..Len(LowerSeq)}
Upper == {UpperSeq[i] : i \in 1..Len(UpperSeq)}
Digits == {"0","1","2","3","4","5","6","7","8","9"}

\* re.IGNORECASE: a letter matches both of its cases
CaseSet(c) ==
    IF c \in Lower THEN {c, UpperSeq[CHOOSE i \in 1..Len(LowerSeq) : LowerSeq[i] = c]}
    ELSE IF c \in Upper THEN {c, LowerSeq[CHOOSE i \in 1..Len(UpperSeq) : UpperSeq[i] = c]}
    ELSE {c}

IgnoreCase(S) == UNION {CaseSet(c) : c \in S}

\* A pattern element: a character class repeated min..max times (max = -1
\* is unbounded), or the zero-width line start ^ under re.MULTILINE.
El(neg, set, min, max) == [kind |-> "cls", neg |-> neg, set |-> set, min |-> min, max |-> max]
Bol == [kind |-> "bol", neg |-> FALSE, set |-> {}, min |-> 0, max |-> 0]
One(S) == El(FALSE, S, 1, 1)
Plus(S) == El(FALSE, S, 1, -1)
Star(S) == El(FALSE, S, 0, -1)
Between(S, lo, hi) == El(FALSE, S, lo, hi)
Exactly(S, n) == El(FALSE, S, n, n)
NotNewlinePlus == El(TRUE, {"\n"}, 1, -1)

Lit(word, ic) == [i \in 1..Len(word) |-> One(IF ic THEN CaseSet(word[i]) ELSE {word[i]})]

InClass(c, el) == (c \in el.set) # el.neg

Min(S) == CHOOSE x \in S : \A y \in S : x <= y

\* Greedy repetition: the number of consecutive characters of the class
\* at pos, at most el.max of them
RunLen(text, pos, el) ==
    LET stops == {j \in pos..Len(text) : ~InClass(text[j], el)}
        run == (IF stops = {} THEN Len(text) + 1 ELSE Min(stops)) - pos
    IN IF el.max # -1 /\ run > el.max THEN el.max ELSE run

NoMatch == <<0, 0>>

\* MatchFrom: match elements i.. of els at position pos; the result is
\* <<start of the capture group, position after the match>> or NoMatch.
\* The capture group starts at element capIdx and runs to the end.
RECURSIVE MatchFrom(_, _, _, _, _)
RECURSIVE TryCounts(_, _, _, _, _, _)
MatchFrom(text, els, i, pos, capIdx) ==
    IF i > Len(els) THEN <<pos, pos>>
    ELSE IF els[i].kind = "bol"
         THEN IF pos = 1 \/ text[pos - 1] = "\n"
              THEN MatchFrom(text, els, i + 1, pos, capIdx)
              ELSE NoMatch
         ELSE TryCounts(text, els, i, pos, capIdx, RunLen(text, pos, els[i]))

TryCounts(text, els, i, pos, capIdx, k) ==
    IF k < els[i].min THEN NoMatch
    ELSE LET r == MatchFrom(text, els, i + 1, pos + k, capIdx)
         IN IF r # NoMatch
            THEN (IF i = capIdx THEN <<pos, r[2]>> ELSE r)
            ELSE TryCounts(text, els, i, pos, capIdx, k - 1)

\* A pattern (?:alt1|alt2|...)sep(cap): alts is the sequence of
\* alternatives, rest the elements after the group, grp the index in
\* rest at which the capture group opens.
Pattern(alts, sep, cap) == [alts |-> alts, rest |-> sep \o cap, grp |-> Len(sep) + 1]

RECURSIVE MatchAlts(_, _, _, _)
MatchAlts(pat, text, pos, j) ==
    IF j > Len(pat.alts) THEN NoMatch
    ELSE LET r == MatchFrom(text, pat.alts[j] \o pat.rest, 1, pos, Len(pat.alts[j]) + pat.grp)
         IN IF r # NoMatch THEN r ELSE MatchAlts(pat, text, pos, j + 1)

\* re.search from position pos on: the match at the leftmost position
re_search(pat, text, pos) ==
    LET starts == {p \in pos..(Len(text) + 1) : MatchAlts(pat, text, p, 1) # NoMatch}
    IN IF starts = {} THEN NoMatch ELSE MatchAlts(pat, text, Min(starts), 1)

Group1(text, r) == SubSeq(text, r[1], r[2] - 1)

\* parse_cms_report.find: the stripped group of the first match, or None
find(pat, text) ==
    LET r == re_search(pat, text, 1)
    IN IF r # NoMatch THEN Some(strip(Group1(text, r))) ELSE None

\* re.findall: the groups of the successive non-overlapping matches
RECURSIVE re_findall(_, _, _)
re_findall(pat, text, pos) ==
    LET r == re_search(pat, text, pos)
    IN IF r = NoMatch THEN <<>>
       ELSE <<Group1(text, r)>> \o re_findall(pat, text, r[2])

\* parse_cms_report.find_all: [m.strip() for m in matches if m.strip()]
find_all(pat, text) ==
    LET matches == re_findall(pat, text, 1)
    IN [i \in 1..Len(SelectSeq(matches, LAMBDA m : strip(m) # <<>>)) |->
            strip(SelectSeq(matches, LAMBDA m : strip(m) # <<>>)[i])]

\* ", ".join(items)
RECURSIVE join_comma(_)
join_comma(items) ==
    IF items = <<>> THEN <<>>
    ELSE IF Len(items) = 1 THEN items[1]
    ELSE items[1] \o <<",", " ">> \o join_comma(Tail(items))

\* ---------------------------------------------------------------------
\* cms_parser.parse_cms_report: the extraction rules
\* ---------------------------------------------------------------------
\* [:\s]+
SepPlus == <<Plus({":"} \cup Whitespace)>>

\* \d{1,3}\.\d{1,3}\.\d{1,3}\.\d{1,3}
DottedQuad ==
    <<Between(Digits, 1, 3), One({"."}), Between(Digits, 1, 3), One({"."}),
      Between(Digits, 1, 3), One({"."}), Between(Digits, 1, 3)>>

\* [A-Z][a-z]+\s+[A-Z][a-z]+ under re.IGNORECASE
PersonName ==
    <<One(IgnoreCase(Upper)), Plus(IgnoreCase(Lower)), Plus(Whitespace),
      One(IgnoreCase(Upper)), Plus(IgnoreCase(Lower))>>

\* (?:Wind\s*Farm|WF|Farm\s*Name)[:\s]+([^\n]+)
pat_wind_farm ==
    Pattern(<<Lit(<<"W","i","n","d">>, TRUE) \o <<Star(Whitespace)>> \o Lit(<<"F","a","r","m">>, TRUE),
         Lit(<<"W","F">>, TRUE),
         Lit(<<"F","a","r","m">>, TRUE) \o <<Star(Whitespace)>> \o Lit(<<"N","a","m","e">>, TRUE)>>,
        SepPlus, <<NotNewlinePlus>>)

\* (?:Turbine\s*Number|WTG|Wind\s*Turbine)[:\s#]*([A-Z0-9\-]+)
pat_turbine_number ==
    Pattern(<<Lit(<<"T","u","r","b","i","n","e">>, TRUE) \o <<Star(Whitespace)>> \o Lit(<<"N","u","m","b","e","r">>, TRUE),
         Lit(<<"W","T","G">>, TRUE),
         Lit(<<"W","i","n","d">>, TRUE) \o <<Star(Whitespace)>> \o Lit(<<"T","u","r","b","i","n","e">>, TRUE)>>,
        <<Star({":", "#"} \cup Whitespace)>>, <<Plus(IgnoreCase(Upper) \cup Digits \cup {"-"})>>)

\* (?:Turbine\s*Type|Model|Type)[:\s]+([^\n]+)
pat_turbine_type ==
    Pattern(<<Lit(<<"T","u","r","b","i","n","e">>, TRUE) \o <<Star(Whitespace)>> \o Lit(<<"T","y","p","e">>, TRUE),
         Lit(<<"M","o","d","e","l">>, TRUE),
         Lit(<<"T","y","p","e">>, TRUE)>>,
        SepPlus, <<NotNewlinePlus>>)

\* (?:Location|Site|Address)[:\s]+([^\n]+)
pat_location ==
    Pattern(<<Lit(<<"L","o","c","a","t","i","o","n">>, TRUE),
         Lit(<<"S","i","t","e">>, TRUE),
         Lit(<<"A","d","d","r","e","s","s">>, TRUE)>>,
        SepPlus, <<NotNewlinePlus>>)

\* (?:Site\s*Address|Address)[:\s]+([^\n]+)
pat_site_address ==
    Pattern(<<Lit(<<"S","i","t","e">>, TRUE) \o <<Star(Whitespace)>> \o Lit(<<"A","d","d","r","e","s","s">>, TRUE),
         Lit(<<"A","d","d","r","e","s","s">>, TRUE)>>,
        SepPlus, <<NotNewlinePlus>>)

\* (?:Service\s*Life\s*Year|SLY|Year)[:\s]+(\d{4})
pat_service_life_year ==
    Pattern(<<Lit(<<"S","e","r","v","i","c","e">>, TRUE) \o <<Star(Whitespace)>> \o Lit(<<"L","i","f","e">>, TRUE) \o <<Star(Whitespace)>> \o Lit(<<"Y","e","a","r">>, TRUE),
         Lit(<<"S","L","Y">>, TRUE),
         Lit(<<"Y","e","a","r">>, TRUE)>>,
        SepPlus, <<Exactly(Digits, 4)>>)

\* (?:Technician|Tech)[:\s]*([A-Z][a-z]+\s+[A-Z][a-z]+)
pat_technicians_list ==
    Pattern(<<Lit(<<"T","e","c","h","n","i","c","i","a","n">>, TRUE),
         Lit(<<"T","e","c","h">>, TRUE)>>,
        <<Star({":"} \cup Whitespace)>>, PersonName)

\* (?:Technician|Service\s*Tech)[:\s]+([^\n]+)
pat_technicians_line ==
    Pattern(<<Lit(<<"T","e","c","h","n","i","c","i","a","n">>, TRUE),
         Lit(<<"S","e","r","v","i","c","e">>, TRUE) \o <<Star(Whitespace)>> \o Lit(<<"T","e","c","h">>, TRUE)>>,
        SepPlus, <<NotNewlinePlus>>)

\* (?:Service\s*Manager|Manager|Supervisor)[:\s]+([^\n]+)
pat_service_manager ==
    Pattern(<<Lit(<<"S","e","r","v","i","c","e">>, TRUE) \o <<Star(Whitespace)>> \o Lit(<<"M","a","n","a","g","e","r">>, TRUE),
         Lit(<<"M","a","n","a","g","e","r">>, TRUE),
         Lit(<<"S","u","p","e","r","v","i","s","o","r">>, TRUE)>>,
        SepPlus, <<NotNewlinePlus>>)

\* (?:Commissioning\s*Date|Commission\s*Date)[:\s]+([0-9\/\-\.]+)
pat_commissioning_date ==
    Pattern(<<Lit(<<"C","o","m","m","i","s","s","i","o","n","i","n","g">>, TRUE) \o <<Star(Whitespace)>> \o Lit(<<"D","a","t","e">>, TRUE),
         Lit(<<"C","o","m","m","i","s","s","i","o","n">>, TRUE) \o <<Star(Whitespace)>> \o Lit(<<"D","a","t","e">>, TRUE)>>,
        SepPlus, <<Plus(Digits \cup {"/", "-", "."})>>)

\* (?:Service\s*Date|Inspection\s*Date|Date)[:\s]+([0-9\/\-\.]+)
pat_service_date ==
    Pattern(<<Lit(<<"S","e","r","v","i","c","e">>, TRUE) \o <<Star(Whitespace)>> \o Lit(<<"D","a","t","e">>, TRUE),
         Lit(<<"I","n","s","p","e","c","t","i","o","n">>, TRUE) \o <<Star(Whitespace)>> \o Lit(<<"D","a","t","e">>, TRUE),
         Lit(<<"D","a","t","e">>, TRUE)>>,
        SepPlus, <<Plus(Digits \cup {"/", "-", "."})>>)

\* (?:MAC\s*Address|DDAU\s*MAC|MAC)[:\s]+([A-F0-9:]+)
pat_ddaus_mac ==
    Pattern(<<Lit(<<"M","A","C">>, TRUE) \o <<Star(Whitespace)>> \o Lit(<<"A","d","d","r","e","s","s">>, TRUE),
         Lit(<<"D","D","A","U">>, TRUE) \o <<Star(Whitespace)>> \o Lit(<<"M","A","C">>, TRUE),
         Lit(<<"M","A","C">>, TRUE)>>,
        SepPlus, <<Plus(IgnoreCase({"A","B","C","D","E","F"}) \cup Digits \cup {":"})>>)

\* (?:IP\s*Address|IP)[:\s]+(\d{1,3}\.\d{1,3}\.\d{1,3}\.\d{1,3})
pat_ip_address ==
    Pattern(<<Lit(<<"I","P">>, TRUE) \o <<Star(Whitespace)>> \o Lit(<<"A","d","d","r","e","s","s">>, TRUE),
         Lit(<<"I","P">>, TRUE)>>,
        SepPlus, DottedQuad)

\* (?:Default\s*Gateway|Gateway)[:\s]+(\d{1,3}\.\d{1,3}\.\d{1,3}\.\d{1,3})
pat_gateway ==
    Pattern(<<Lit(<<"D","e","f","a","u","l","t">>, TRUE) \o <<Star(Whitespace)>> \o Lit(<<"G","a","t","e","w","a","y">>, TRUE),
         Lit(<<"G","a","t","e","w","a","y">>, TRUE)>>,
        SepPlus, DottedQuad)

\* (?:Controller\s*Type|Controller)[:\s]+([^\n]+)
pat_controller_type ==
    Pattern(<<Lit(<<"C","o","n","t","r","o","l","l","e","r">>, TRUE) \o <<Star(Whitespace)>> \o Lit(<<"T","y","p","e">>, TRUE),
         Lit(<<"C","o","n","t","r","o","l","l","e","r">>, TRUE)>>,
        SepPlus, <<NotNewlinePlus>>)

\* (?:DAS\s*Server|Server)[:\s]+([^\n]+)
pat_das_server ==
    Pattern(<<Lit(<<"D","A","S">>, TRUE) \o <<Star(Whitespace)>> \o Lit(<<"S","e","r","v","e","r">>, TRUE),
         Lit(<<"S","e","r","v","e","r">>, TRUE)>>,
        SepPlus, <<NotNewlinePlus>>)

\* (?:Serial\s*Number|S/N|Serial)[:\s]+([A-Z0-9\-]+)
pat_serial_number ==
    Pattern(<<Lit(<<"S","e","r","i","a","l">>, TRUE) \o <<Star(Whitespace)>> \o Lit(<<"N","u","m","b","e","r">>, TRUE),
         Lit(<<"S","/","N">>, TRUE),
         Lit(<<"S","e","r","i","a","l">>, TRUE)>>,
        SepPlus, <<Plus(IgnoreCase(Upper) \cup Digits \cup {"-"})>>)

\* (?:Firmware\s*Version|FW\s*Version|Firmware)[:\s]+([0-9\.]+)
pat_firmware_version ==
    Pattern(<<Lit(<<"F","i","r","m","w","a","r","e">>, TRUE) \o <<Star(Whitespace)>> \o Lit(<<"V","e","r","s","i","o","n">>, TRUE),
         Lit(<<"F","W">>, TRUE) \o <<Star(Whitespace)>> \o Lit(<<"V","e","r","s","i","o","n">>, TRUE),
         Lit(<<"F","i","r","m","w","a","r","e">>, TRUE)>>,
        SepPlus, <<Plus(Digits \cup {"."})>>)

\* (?:^Name|Name)[:\s]+([^\n]+)  flags = re.MULTILINE (no IGNORECASE)
pat_name_field ==
    Pattern(<<<<Bol>> \o Lit(<<"N","a","m","e">>, FALSE),
         Lit(<<"N","a","m","e">>, FALSE)>>,
        SepPlus, <<NotNewlinePlus>>)

\* (?:^Number|Number)[:\s]+([^\n]+)  flags = re.MULTILINE (no IGNORECASE)
pat_number_field ==
    Pattern(<<<<Bol>> \o Lit(<<"N","u","m","b","e","r">>, FALSE),
         Lit(<<"N","u","m","b","e","r">>, FALSE)>>,
        SepPlus, <<NotNewlinePlus>>)

\* ---------------------------------------------------------------------
\* models.CmsReportData and cms_parser.parse_cms_report
\* ---------------------------------------------------------------------
\* The attributes of CmsReportData, in declaration order (raw_text last)
CmsAttributes ==
    <<"wind_farm", "turbine_number", "turbine_type", "location", "service_life_year",
      "technicians", "service_manager", "commissioning_date", "service_date",
      "ddaus_mac", "ip_address", "turbine_ip", "gateway", "controller_type",
      "das_server", "serial_number", "firmware_version", "raw_text">>

AttributeNames == {CmsAttributes[i] : i \in 1..Len(CmsAttributes)}

\* CmsReportData(): every attribute defaults to None
EmptyCmsReportData == [a \in AttributeNames |-> None]

\* Python truth value of an Optional[str]
Truthy(v) == v # None /\ v[1] # <<>>

\* a or b
PyOr(a, b) == IF Truthy(a) THEN a ELSE b

\* a parser that reads the unit IP from another rule
parse_cms_report_turbine_ip_from_gateway(text) ==
    LET wind_farm0 == find(pat_wind_farm, text)
        turbine_number0 == find(pat_turbine_number, text)
        turbine_type == find(pat_turbine_type, text)
        location == find(pat_location, text)
        site_address == find(pat_site_address, text)
        service_life_year == find(pat_service_life_year, text)
        technicians_list == find_all(pat_technicians_list, text)
        technicians == IF technicians_list # <<>>
                       THEN Some(join_comma(technicians_list))
                       ELSE find(pat_technicians_line, text)
        service_manager == find(pat_service_manager, text)
        commissioning_date == find(pat_commissioning_date, text)
        service_date == find(pat_service_date, text)
        ddaus_mac == find(pat_ddaus_mac, text)
        ip_address == find(pat_ip_address, text)
        gateway == find(pat_gateway, text)
        controller_type == find(pat_controller_type, text)
        das_server == find(pat_das_server, text)
        serial_number == find(pat_serial_number, text)
        firmware_version == find(pat_firmware_version, text)
        name_field == find(pat_name_field, text)
        turbine_number == IF Truthy(name_field) /\ ~Truthy(turbine_number0)
                          THEN name_field ELSE turbine_number0
        number_field == find(pat_number_field, text)
        wind_farm == IF Truthy(number_field) /\ ~Truthy(wind_farm0)
                     THEN number_field ELSE wind_farm0
    IN [a \in AttributeNames |->
          CASE a = "wind_farm" -> PyOr(wind_farm, number_field)
            [] a = "turbine_number" -> PyOr(turbine_number, name_field)
            [] a = "turbine_type" -> turbine_type
            [] a = "location" -> PyOr(location, site_address)
            [] a = "service_life_year" -> service_life_year
            [] a = "technicians" -> technicians
            [] a = "service_manager" -> service_manager
            [] a = "commissioning_date" -> commissioning_date
            [] a = "service_date" -> service_date
            [] a = "ddaus_mac" -> ddaus_mac
            [] a = "ip_address" -> ip_address
            [] a = "turbine_ip" -> gateway
            [] a = "gateway" -> gateway
            [] a = "controller_type" -> controller_type
            [] a = "das_server" -> das_server
            [] a = "serial_number" -> serial_number
            [] a = "firmware_version" -> firmware_version
            [] a = "raw_text" -> Some(text)]

\* cms_parser.parse_cms_report
parse_cms_report(text) ==
    LET wind_farm0 == find(pat_wind_farm, text)
        turbine_number0 == find(pat_turbine_number, text)
        turbine_type == find(pat_turbine_type, text)
        location == find(pat_location, text)
        site_address == find(pat_site_address, text)
        service_life_year == find(pat_service_life_year, text)
        technicians_list == find_all(pat_technicians_list, text)
        technicians == IF technicians_list # <<>>
                       THEN Some(join_comma(technicians_list))
                       ELSE find(pat_technicians_line, text)
        service_manager == find(pat_service_manager, text)
        commissioning_date == find(pat_commissioning_date, text)
        service_date == find(pat_service_date, text)
        ddaus_mac == find(pat_ddaus_mac, text)
        ip_address == find(pat_ip_address, text)
        gateway == find(pat_gateway, text)
        controller_type == find(pat_controller_type, text)
        das_server == find(pat_das_server, text)
        serial_number == find(pat_serial_number, text)
        firmware_version == find(pat_firmware_version, text)
        name_field == find(pat_name_field, text)
        turbine_number == IF Truthy(name_field) /\ ~Truthy(turbine_number0)
                          THEN name_field ELSE turbine_number0
        number_field == find(pat_number_field, text)
        wind_farm == IF Truthy(number_field) /\ ~Truthy(wind_farm0)
                     THEN number_field ELSE wind_farm0
    IN [a \in AttributeNames |->
          CASE a = "wind_farm" -> PyOr(wind_farm, number_field)
            [] a = "turbine_number" -> PyOr(turbine_number, name_field)
            [] a = "turbine_type" -> turbine_type
            [] a = "location" -> PyOr(location, site_address)
            [] a = "service_life_year" -> service_life_year
            [] a = "technicians" -> technicians
            [] a = "service_manager" -> service_manager
            [] a = "commissioning_date" -> commissioning_date
            [] a = "service_date" -> service_date
            [] a = "ddaus_mac" -> ddaus_mac
            [] a = "ip_address" -> ip_address
            [] a = "turbine_ip" -> ip_address
            [] a = "gateway" -> gateway
            [] a = "controller_type" -> controller_type
            [] a = "das_server" -> das_server
            [] a = "serial_number" -> serial_number
            [] a = "firmware_version" -> firmware_version
            [] a = "raw_text" -> Some(text)]

to_dict_with_raw_text(cms) ==
    [k \in {a \in AttributeNames : cms[a] # None} |-> cms[k][1]]

\* CmsReportData.to_dict: the attributes that are not None, without raw_text
to_dict(cms) ==
    [k \in {a \in AttributeNames : cms[a] # None /\ a # "raw_text"} |-> cms[k][1]]

\* ---------------------------------------------------------------------
\* models.CMS_TO_SIF_MAP: a dict, as the sequence of its items in
\* insertion order (keys distinct)
\* ---------------------------------------------------------------------
CMS_TO_SIF_MAP ==
    << <<"wind_farm", "Wind farm number">>,
       <<"turbine_number", "Wind turbine number">>,
       <<"turbine_type", "Wind turbine type_2">>,
       <<"location", "Site location">>,
       <<"service_life_year", "Service life year">>,
       <<"technicians", "Service technician 1">>,
       <<"service_manager", "Service manager">>,
       <<"commissioning_date", "DateRow1">>,
       <<"service_date", "Date">>,
       <<"ddaus_mac", "MAC address DDAU">>,
       <<"ip_address", "IP address DDAU">>,
       <<"turbine_ip", "IP address of the wind turbine">>,
       <<"gateway", "Gateway">>,
       <<"controller_type", "Controller type">>,
       <<"das_server", "DAS Server">>,
       <<"serial_number", "Serial number">>,
       <<"firmware_version", "Firmware version">>,
       <<"gearbox_info", "Gearbox manufacturer type and gearbox ratio">>,
       <<"generator_info", "Generator manufacturer and type">>,
       <<"main_bearing_info", "Main bearing manufacturer and type">>,
       <<"hub_height", "Hub height optional">>,
       <<"owner", "Owner optional">>,
       <<"service_car", "Service car number optional">> >>

MappingKeys(mapping) == {mapping[i][1] : i \in 1..Len(mapping)}
MappingTargets(mapping) == {mapping[i][2] : i \in 1..Len(mapping)}

\* mapping = custom_mapping if custom_mapping is not None else CMS_TO_SIF_MAP
mapping_in_effect(custom_mapping) ==
    IF custom_mapping # None THEN custom_mapping[1] ELSE CMS_TO_SIF_MAP

\* str(value) of a str is the str itself
str(value) == value

\* d[k] = v on a dict
DictSet(d, k, v) == [x \in DOMAIN d \cup {k} |-> IF x = k THEN v ELSE d[x]]

\* {v: k for k, v in mapping.items()}: a dict from target to key
RECURSIVE reverse_items(_, _, _)
reverse_items(mapping, i, d) ==
    IF i > Len(mapping) THEN d
    ELSE reverse_items(mapping, i + 1, DictSet(d, mapping[i][2], mapping[i][1]))

\* models.SIF_TO_CMS_MAP, built once from the default table
SIF_TO_CMS_MAP == reverse_items(CMS_TO_SIF_MAP, 1, <<>>)

\* models.get_field_mapping_info(): takes no mapping
get_field_mapping_info ==
    [cms_to_sif |-> CMS_TO_SIF_MAP,
     sif_to_cms |-> SIF_TO_CMS_MAP,
     stats |-> [total_mappings |-> Len(CMS_TO_SIF_MAP),
                cms_fields |-> [i \in 1..Len(CMS_TO_SIF_MAP) |-> CMS_TO_SIF_MAP[i][1]],
                sif_fields |-> [i \in 1..Len(CMS_TO_SIF_MAP) |-> CMS_TO_SIF_MAP[i][2]]]]

\* ---------------------------------------------------------------------
\* sif_filler.cms_to_sif_field_values
\* ---------------------------------------------------------------------
RECURSIVE project_items(_, _, _, _)
project_items(cms_dict, mapping, i, sif_values) ==
    IF i > Len(mapping) THEN sif_values
    ELSE LET cms_field == mapping[i][1]
             sif_field == mapping[i][2]
             \* value = cms_dict.get(cms_field); if value:
             has_value == cms_field \in DOMAIN cms_dict /\ cms_dict[cms_field] # <<>>
         IN project_items(cms_dict, mapping, i + 1,
                IF has_value
                THEN DictSet(sif_values, sif_field, str(cms_dict[cms_field]))
                ELSE sif_values)

RECURSIVE project_items_keep_empty(_, _, _, _)
project_items_keep_empty(cms_dict, mapping, i, sif_values) ==
    IF i > Len(mapping) THEN sif_values
    ELSE project_items_keep_empty(cms_dict, mapping, i + 1,
            IF mapping[i][1] \in DOMAIN cms_dict
            THEN DictSet(sif_values, mapping[i][2], str(cms_dict[mapping[i][1]]))
            ELSE sif_values)

cms_to_sif_field_values_keep_empty(cms, custom_mapping) ==
    project_items_keep_empty(to_dict(cms), mapping_in_effect(custom_mapping), 1, <<>>)

\* a projection that keeps the first value written to a target
RECURSIVE project_items_first_writer(_, _, _, _)
project_items_first_writer(cms_dict, mapping, i, sif_values) ==
    IF i > Len(mapping) THEN sif_values
    ELSE LET has_value == mapping[i][1] \in DOMAIN cms_dict /\ cms_dict[mapping[i][1]] # <<>>
         IN project_items_first_writer(cms_dict, mapping, i + 1,
                IF has_value /\ mapping[i][2] \notin DOMAIN sif_values
                THEN DictSet(sif_values, mapping[i][2], str(cms_dict[mapping[i][1]]))
                ELSE sif_values)

cms_to_sif_field_values_first_writer(cms, custom_mapping) ==
    project_items_first_writer(to_dict(cms), mapping_in_effect(custom_mapping), 1, <<>>)

cms_to_sif_field_values(cms, custom_mapping) ==
    project_items(to_dict(cms), mapping_in_effect(custom_mapping), 1, <<>>)

\* ---------------------------------------------------------------------
\* Template documents as pypdf sees them
\*   opens            PdfReader(io.BytesIO(bytes)) succeeds
\*   clones           clone_document_from_reader and writer.write succeed
\*   acroform         the document has an AcroForm: get_fields() is a
\*                    dict (possibly empty) rather than None
\*   reader_fields_ok reader.get_fields() returns rather than raises
\*   fields           field name -> current value
\* ---------------------------------------------------------------------
Template(opens, clones, acroform, reader_fields_ok, fields) ==
    [opens |-> opens, clones |-> clones, acroform |-> acroform,
     reader_fields_ok |-> reader_fields_ok, fields |-> fields]

\* get_fields(): None without an AcroForm, else the field table
get_fields(tpl) == IF tpl.acroform THEN Some(tpl.fields) ELSE None

\* ---------------------------------------------------------------------
\* sif_filler.fill_sif_form
\* write_errors: the requested field names whose
\* update_page_form_field_values call raises (KeyError or other)
\* ---------------------------------------------------------------------
Raised(exc, msg) == [kind |-> "raised", exc |-> exc, msg |-> msg]
Returned(value) == [kind |-> "returned", value |-> value]

fill_sif_form_abort(sif_template_bytes, field_values, flatten, write_errors) ==
    IF ~sif_template_bytes.opens \/ ~sif_template_bytes.clones
    THEN Raised("SifFillError", "Failed to fill SIF form")
    ELSE IF get_fields(sif_template_bytes) = None
    THEN Raised("SifFillError", "SIF template does not contain form fields (AcroForm)")
    ELSE IF write_errors \cap DOMAIN field_values # {}
    THEN Raised("SifFillError", "Failed to fill SIF form")
    ELSE Returned([f \in DOMAIN sif_template_bytes.fields |->
                     IF f \in DOMAIN field_values
                     THEN field_values[f] ELSE sif_template_bytes.fields[f]])

fill_sif_form_accept_no_form(sif_template_bytes, field_values, flatten, write_errors) ==
    IF ~sif_template_bytes.opens \/ ~sif_template_bytes.clones
    THEN Raised("SifFillError", "Failed to fill SIF form")
    ELSE Returned([f \in DOMAIN sif_template_bytes.fields |->
                     IF f \in DOMAIN field_values /\ f \notin write_errors
                     THEN field_values[f] ELSE sif_template_bytes.fields[f]])

fill_sif_form_flatten_unsupported(sif_template_bytes, field_values, flatten, write_errors) ==
    IF ~sif_template_bytes.opens \/ ~sif_template_bytes.clones \/ flatten
    THEN Raised("SifFillError", "Failed to fill SIF form")
    ELSE IF get_fields(sif_template_bytes) = None
    THEN Raised("SifFillError", "SIF template does not contain form fields (AcroForm)")
    ELSE Returned([f \in DOMAIN sif_template_bytes.fields |->
                     IF f \in DOMAIN field_values /\ f \notin write_errors
                     THEN field_values[f] ELSE sif_template_bytes.fields[f]])

fill_sif_form(sif_template_bytes, field_values, flatten, write_errors) ==
    IF ~sif_template_bytes.opens \/ ~sif_template_bytes.clones
    THEN Raised("SifFillError", "Failed to fill SIF form")
    ELSE IF get_fields(sif_template_bytes) = None
    THEN Raised("SifFillError", "SIF template does not contain form fields (AcroForm)")
    ELSE \* each field is written in its own try; flatten is a pass
         Returned([f \in DOMAIN sif_template_bytes.fields |->
                     IF f \in DOMAIN field_values /\ f \notin write_errors
                     THEN field_values[f] ELSE sif_template_bytes.fields[f]])

\* ---------------------------------------------------------------------
\* sif_filler.get_unfilled_fields (a sorted list of distinct names,
\* modelled as the set of its elements)
\* ---------------------------------------------------------------------
get_unfilled_fields(sif_template_bytes, field_values) ==
    IF ~sif_template_bytes.opens \/ ~sif_template_bytes.reader_fields_ok
    THEN {}
    ELSE IF get_fields(sif_template_bytes) = None THEN {}
    ELSE DOMAIN sif_template_bytes.fields \ DOMAIN field_values

\* ---------------------------------------------------------------------
\* sif_filler.get_mapping_report
\* ---------------------------------------------------------------------
\* f"{(mapped / total * 100):.1f}%": the percentage in tenths, rounded to
\* the nearest tenth (ties to even), or "N/A" for a zero denominator
coverage_truncated(mapped_fields, total_fields) ==
    IF total_fields > 0
    THEN LET tenths == (mapped_fields * 1000) \div total_fields
         IN [na |-> FALSE, whole |-> tenths \div 10, tenth |-> tenths % 10]
    ELSE [na |-> TRUE, whole |-> 0, tenth |-> 0]

coverage(mapped_fields, total_fields) ==
    IF total_fields > 0
    THEN LET q == (mapped_fields * 1000) \div total_fields
             r == (mapped_fields * 1000) % total_fields
             tenths == IF 2 * r > total_fields THEN q + 1
                       ELSE IF 2 * r < total_fields THEN q
                       ELSE IF q % 2 = 0 THEN q ELSE q + 1
         IN [na |-> FALSE, whole |-> tenths \div 10, tenth |-> tenths % 10]
    ELSE [na |-> TRUE, whole |-> 0, tenth |-> 0]

\* the keys of to_dict(cms) as a list, in attribute order
dict_keys(cms_fields) == SelectSeq(CmsAttributes, LAMBDA a : a \in DOMAIN cms_fields)

ErrorReport == [error |-> "Could not generate mapping report"]

get_mapping_report_unmapped_by_target(cms, sif_template_bytes, custom_mapping) ==
    IF ~sif_template_bytes.opens \/ ~sif_template_bytes.reader_fields_ok
    THEN ErrorReport
    ELSE LET cms_fields == to_dict(cms)
             sif_fields == IF get_fields(sif_template_bytes) # None
                              /\ get_fields(sif_template_bytes)[1] # <<>>
                           THEN sif_template_bytes.fields ELSE <<>>
             sif_values == cms_to_sif_field_values(cms, custom_mapping)
             total_cms_fields == Cardinality(DOMAIN cms_fields)
             total_sif_fields == Cardinality(DOMAIN sif_fields)
             mapped_fields == Cardinality(DOMAIN sif_values)
             mapping == mapping_in_effect(custom_mapping)
             unmapped_cms == SelectSeq(dict_keys(cms_fields),
                                LAMBDA field : field \notin MappingTargets(mapping))
             unfilled_sif == DOMAIN sif_fields
         IN [cms_extraction |-> [total_fields |-> total_cms_fields,
                                 extracted_fields |-> dict_keys(cms_fields)],
             sif_form |-> [total_fields |-> total_sif_fields,
                           field_names |-> DOMAIN sif_fields],
             mapping |-> [total_mappings |-> Len(mapping),
                          successfully_mapped |-> mapped_fields,
                          mapping_details |-> sif_values],
             gaps |-> [unmapped_cms_fields |-> unmapped_cms,
                       unfilled_sif_fields |-> unfilled_sif],
             coverage |-> [cms_coverage |-> coverage(mapped_fields, total_cms_fields),
                           sif_coverage |-> coverage(mapped_fields, total_sif_fields)]]

get_mapping_report(cms, sif_template_bytes, custom_mapping) ==
    IF ~sif_template_bytes.opens \/ ~sif_template_bytes.reader_fields_ok
    THEN ErrorReport
    ELSE LET cms_fields == to_dict(cms)
             \* reader.get_fields() if reader.get_fields() else {}
             sif_fields == IF get_fields(sif_template_bytes) # None
                              /\ get_fields(sif_template_bytes)[1] # <<>>
                           THEN sif_template_bytes.fields ELSE <<>>
             sif_values == cms_to_sif_field_values(cms, custom_mapping)
             total_cms_fields == Cardinality(DOMAIN cms_fields)
             total_sif_fields == Cardinality(DOMAIN sif_fields)
             mapped_fields == Cardinality(DOMAIN sif_values)
             mapping == mapping_in_effect(custom_mapping)
             unmapped_cms == SelectSeq(dict_keys(cms_fields),
                                LAMBDA field : field \notin MappingKeys(mapping))
             unfilled_sif == get_unfilled_fields(sif_template_bytes, sif_values)
         IN [cms_extraction |-> [total_fields |-> total_cms_fields,
                                 extracted_fields |-> dict_keys(cms_fields)],
             sif_form |-> [total_fields |-> total_sif_fields,
                           field_names |-> DOMAIN sif_fields],
             mapping |-> [total_mappings |-> Len(mapping),
                          successfully_mapped |-> mapped_fields,
                          mapping_details |-> sif_values],
             gaps |-> [unmapped_cms_fields |-> unmapped_cms,
                       unfilled_sif_fields |-> unfilled_sif],
             coverage |-> [cms_coverage |-> coverage(mapped_fields, total_cms_fields),
                           sif_coverage |-> coverage(mapped_fields, total_sif_fields)]]

IsErrorReport(report) == "error" \in DOMAIN report

\* ---------------------------------------------------------------------
\* pdf_loader.get_pdf_metadata, pdf_loader.get_form_fields and
\* main.validate_sif_template
\* ---------------------------------------------------------------------
\* list(d.keys()): the keys once each
RECURSIVE key_list(_)
key_list(S) ==
    IF S = {} THEN <<>>
    ELSE LET k == CHOOSE x \in S : TRUE IN <<k>> \o key_list(S \ {k})

get_pdf_metadata(pdf_bytes) ==
    IF pdf_bytes.opens THEN [error |-> FALSE] ELSE [error |-> TRUE]

get_form_fields_strict(pdf_bytes) ==
    IF ~pdf_bytes.opens \/ ~pdf_bytes.reader_fields_ok THEN <<>>
    ELSE IF get_fields(pdf_bytes) = None THEN [f \in {"AcroForm"} |-> <<>>]
    ELSE pdf_bytes.fields

get_form_fields(pdf_bytes) ==
    IF ~pdf_bytes.opens \/ ~pdf_bytes.reader_fields_ok THEN <<>>
    ELSE IF get_fields(pdf_bytes) = None THEN <<>>
    ELSE pdf_bytes.fields

validate_sif_template(sif_template_bytes) ==
    LET metadata == get_pdf_metadata(sif_template_bytes)
        fields == get_form_fields(sif_template_bytes)
        is_valid == Cardinality(DOMAIN fields) > 0
    IN [success |-> TRUE,
        is_valid |-> is_valid,
        field_count |-> Cardinality(DOMAIN fields),
        fields |-> key_list(DOMAIN fields),
        metadata |-> metadata,
        message |-> IF is_valid THEN "Valid SIF template" ELSE "No form fields found in PDF"]

\* ---------------------------------------------------------------------
\* main.process_cms_report, main.create_sif_from_cms and
\* sif_filler.create_filled_sif: the pieces of the orchestrator
\* ---------------------------------------------------------------------
\* "[OCR not yet implemented"
OcrPlaceholderPrefix ==
    <<"[","O","C","R"," ","n","o","t"," ","y","e","t"," ","i","m","p","l","e","m","e","n","t","e","d">>

\* pdf_loader.extract_text_with_ocr as shipped returns
\* "[OCR not yet implemented - text-based PDFs only]"
OcrPlaceholder ==
    OcrPlaceholderPrefix \o
    <<" ","-"," ","t","e","x","t","-","b","a","s","e","d"," ","P","D","F","s"," ","o","n","l","y","]">>

startswith(s, prefix) == Len(s) >= Len(prefix) /\ SubSeq(s, 1, Len(prefix)) = prefix

\* if needs_ocr: ... (else straight to parsing)
after_extract_always_ocr(needs_ocr) == "ocr"

after_extract(needs_ocr) == IF needs_ocr THEN "ocr" ELSE "parse"

\* if ocr_text and not ocr_text.startswith("[OCR not yet implemented"):
\*     text = ocr_text
text_after_ocr_any_nonempty(text, ocr_text) ==
    IF ocr_text # <<>> THEN ocr_text ELSE text

text_after_ocr(text, ocr_text) ==
    IF ocr_text # <<>> /\ ~startswith(ocr_text, OcrPlaceholderPrefix)
    THEN ocr_text
    ELSE text

\* except PdfLoadError / except Exception in process_cms_report
process_cms_report_except(exc) ==
    IF exc = "PdfLoadError"
    THEN Raised("ConversionError", "Failed to load CMS PDF")
    ELSE Raised("ConversionError", "Failed to process CMS report")

\* except SifFillError / except Exception in create_sif_from_cms
create_sif_from_cms_except_fill_only(exc) ==
    IF exc = "SifFillError"
    THEN Raised("ConversionError", "Failed to fill SIF template")
    ELSE Raised(exc, "")

create_sif_from_cms_except(exc) ==
    IF exc = "SifFillError"
    THEN Raised("ConversionError", "Failed to fill SIF template")
    ELSE Raised("ConversionError", "Failed to generate SIF")

\* create_filled_sif after get_mapping_report: with debug the report's
\* statistics are printed, and report['cms_extraction'] raises KeyError
\* on a report that carries only an error
create_filled_sif_return(filled_pdf, report, debug) ==
    IF debug /\ IsErrorReport(report)
    THEN Raised("KeyError", "cms_extraction")
    ELSE Returned(<<filled_pdf, report>>)

\* main.process_cms_report as one function of the source document and of
\* the text OCR returned (read only when OCR is called)
process_cms_report(cms_pdf_bytes, ocr_returned) ==
    LET extracted == extract_pdf_text(cms_pdf_bytes)
    IN IF extracted.exc # "none"
       THEN process_cms_report_except(extracted.exc)
       ELSE LET text == IF after_extract(extracted.needs_ocr) = "ocr"
                        THEN text_after_ocr(extracted.text, ocr_returned)
                        ELSE extracted.text
            IN Returned(parse_cms_report(text))

\* main.convert_cms_to_sif as one function of its arguments and of what
\* the collaborators did: the text OCR returned (when it was called) and
\* the set of fields whose write raised
convert_cms_to_sif(cms_pdf_bytes, sif_template_bytes, custom_mapping, flatten, debug, ocr_returned, write_errors) ==
    LET processed == process_cms_report(cms_pdf_bytes, ocr_returned)
    IN IF processed.kind = "raised"
       THEN processed
       ELSE LET cms_data == processed.value
                sif_values == cms_to_sif_field_values(cms_data, custom_mapping)
                filled == fill_sif_form(sif_template_bytes, sif_values, flatten,
                                        write_errors \cap DOMAIN sif_values)
            IN IF filled.kind = "raised"
               THEN create_sif_from_cms_except(filled.exc)
               ELSE LET report == get_mapping_report(cms_data, sif_template_bytes, custom_mapping)
                        r == create_filled_sif_return(filled.value, report, debug)
                    IN IF r.kind = "raised" THEN create_sif_from_cms_except(r.exc) ELSE r

\* main.get_cms_preview calls get_extraction_summary, a name that main.py
\* neither defines nor imports: the call raises NameError
get_extraction_summary(cms_data) ==
    Raised("NameError", "name 'get_extraction_summary' is not defined")

\* main.get_cms_preview, given how its call of process_cms_report ended:
\* every exception becomes success = FALSE
get_cms_preview(processed) ==
    IF processed.kind = "raised"
    THEN [success |-> FALSE, error |-> processed.msg]
    ELSE LET summary == get_extraction_summary(processed.value)
         IN IF summary.kind = "raised"
            THEN [success |-> FALSE, error |-> summary.msg]
            ELSE [success |-> TRUE,
                  data |-> to_dict(processed.value),
                  summary |-> summary.value]

\* ---------------------------------------------------------------------
\* State
\* ---------------------------------------------------------------------
VARIABLES
    pc,                 \* position of the operation under way
    cms_pdf_bytes,      \* source document
    sif_template_bytes, \* template document
    custom_mapping,     \* Optional mapping: None or Some(items)
    flatten,
    debug,
    extracted_text,     \* what extract_pdf_text returned as text
    needs_ocr,
    ocr_calls,          \* number of calls of extract_text_with_ocr
    ocr_text,           \* Optional: what the OCR call returned
    text,               \* process_cms_report's local text
    cms_data,           \* Optional CmsReportData
    sif_values,         \* projected / requested field values
    write_errors,       \* field names whose write raised during fill
    filled_pdf,         \* Optional filled document (field name -> value)
    report,
    result,             \* what the operation returned or raised
    cms_bytes,          \* main_script global: Optional uploaded source
    sif_bytes,          \* main_script global: Optional default template
    extracted_cms_data, \* main_script global: Optional extracted record
    user_sif_bytes,     \* main_script global: Optional uploaded template
    document,           \* the page: which buttons are disabled
    sif_load_pending    \* a scheduled load_sif_template has not run yet

vars == <<pc, cms_pdf_bytes, sif_template_bytes, custom_mapping, flatten, debug,
          extracted_text, needs_ocr, ocr_calls, ocr_text, text, cms_data,
          sif_values, write_errors, filled_pdf, report, result,
          cms_bytes, sif_bytes, extracted_cms_data, user_sif_bytes, document,
          sif_load_pending>>

\* the page session of main_script
session == <<cms_bytes, sif_bytes, extracted_cms_data, user_sif_bytes, document,
             sif_load_pending>>

\* main_script's globals as the script sets them before any event; the
\* page starts with both buttons disabled (the handlers only ever enable
\* them after an upload or an extraction)
SessionStart ==
    /\ cms_bytes = None
    /\ sif_bytes = None
    /\ extracted_cms_data = None
    /\ user_sif_bytes = None
    /\ document = [extract_btn_disabled |-> TRUE, generate_btn_disabled |-> TRUE]
    /\ sif_load_pending = TRUE

inputs == <<cms_pdf_bytes, sif_template_bytes, custom_mapping, flatten, debug>>

NoDocument == [opens |-> FALSE, pages |-> <<>>]
NoTemplate == Template(FALSE, FALSE, FALSE, FALSE, <<>>)

\* the locals of an operation before it has run
LocalsBlank ==
    /\ extracted_text = <<>>
    /\ needs_ocr = FALSE
    /\ ocr_calls = 0
    /\ ocr_text = None
    /\ text = <<>>
    /\ sif_values = <<>>
    /\ write_errors = {}
    /\ filled_pdf = None
    /\ report = <<>>
    /\ result = NoResult

\* ---------------------------------------------------------------------
\* Specification SpecText: extract_pdf_text applied to bounded documents
\* ---------------------------------------------------------------------
BodyLens == {0, OcrThreshold \div 2 - 1, OcrThreshold \div 2, OcrThreshold - 1, OcrThreshold}

PaddedText(lead, body, trail) ==
    Repeat(" ", lead) \o Repeat("x", body) \o Repeat("\n", trail)

TextPages ==
    {PageError, PageNone} \cup
    {PageText(PaddedText(l, b, t)) : l \in 0..MaxPad, b \in BodyLens, t \in {0, MaxPad}}

SeqsUpTo(S, n) == UNION {[1..k -> S] : k \in 0..n}

TextDocs ==
    {NoDocument} \cup
    {[opens |-> TRUE, pages |-> p] : p \in SeqsUpTo(TextPages, MaxPages)}

InitText ==
    /\ pc = "text_call"
    /\ SessionStart
    /\ cms_pdf_bytes \in TextDocs
    /\ sif_template_bytes = NoTemplate
    /\ custom_mapping = None
    /\ flatten = FALSE
    /\ debug = FALSE
    /\ cms_data = None
    /\ LocalsBlank

CallExtractPdfText ==
    /\ pc = "text_call"
    /\ LET r == extract_pdf_text(cms_pdf_bytes)
       IN /\ result' = (IF r.exc = "none" THEN Returned(<<r.text, r.needs_ocr>>)
                        ELSE Raised(r.exc, "Failed to read PDF"))
          /\ extracted_text' = r.text
          /\ needs_ocr' = r.needs_ocr
    /\ pc' = "text_done"
    /\ UNCHANGED <<session, inputs, ocr_calls, ocr_text, text, cms_data, sif_values,
                   write_errors, filled_pdf, report>>

NextText == CallExtractPdfText

SpecText == InitText /\ [][NextText]_vars

\* Length of s without its leading and trailing whitespace, counted from
\* the positions of the first and last non-whitespace characters.
StrippedLen(s) ==
    LET nonws == {i \in 1..Len(s) : s[i] \notin Whitespace}
    IN IF nonws = {} THEN 0
       ELSE (CHOOSE i \in nonws : \A j \in nonws : j <= i)
            - (CHOOSE i \in nonws : \A j \in nonws : i <= j) + 1

RECURSIVE TotalLen(_)
TotalLen(pages) ==
    IF pages = <<>> THEN 0 ELSE Len(page_chunk(Head(pages))) + TotalLen(Tail(pages))

\* C3: extract_pdf_text returns needs_ocr = TRUE exactly when the page
\* texts joined by line breaks, without leading and trailing whitespace,
\* have fewer than 100 characters (exactly 100 gives FALSE), and the text
\* it returns is the unstripped concatenation.
C3_NeedsOcrThreshold ==
    (pc = "text_done" /\ result.kind = "returned") =>
        LET n == Len(cms_pdf_bytes.pages)
            rtext == result.value[1]
            rflag == result.value[2]
        IN /\ rflag = (StrippedLen(rtext) < 100)
           /\ Len(rtext) = TotalLen(cms_pdf_bytes.pages) + (IF n > 0 THEN n - 1 ELSE 0)
           /\ (n = 1 => rtext = page_chunk(cms_pdf_bytes.pages[1]))

C3_Witness ==
    /\ pc = "text_done"
    /\ result.kind = "returned"
    /\ StrippedLen(result.value[1]) = 100
    /\ Len(result.value[1]) > 100
    /\ result.value[2] = FALSE

\* The text a page contributes: its extracted text, or nothing when the
\* extraction failed or gave None
Contribution(page) == IF page.kind = "text" THEN page.text ELSE <<>>

\* Position in the joined text of the first character of page i
RECURSIVE ContributionStart(_, _)
ContributionStart(pages, i) ==
    IF i = 1 THEN 1
    ELSE ContributionStart(pages, i - 1) + Len(Contribution(pages[i - 1])) + 1

\* C27: extract_pdf_text never fails because of a page: PdfLoadError is
\* raised exactly when the document cannot be opened, and for a document
\* of n pages the text is the n page texts in page order, a failed page
\* counting as the empty text, with one line break between consecutive
\* pages.
C27_PageFailureIsEmptyText ==
    (pc = "text_done") =>
        LET pages == cms_pdf_bytes.pages
            n == Len(pages)
        IN /\ (result.kind = "raised") = ~cms_pdf_bytes.opens
           /\ (result.kind = "raised") => result.exc = "PdfLoadError"
           /\ (result.kind = "returned") =>
                 LET rtext == result.value[1]
                 IN /\ Len(rtext) = IF n = 0 THEN 0
                                    ELSE ContributionStart(pages, n)
                                         + Len(Contribution(pages[n])) - 1
                    /\ \A i \in 1..n :
                          LET from == ContributionStart(pages, i)
                              to == from + Len(Contribution(pages[i])) - 1
                          IN /\ to <= Len(rtext)
                             /\ SubSeq(rtext, from, to) = Contribution(pages[i])
                             /\ (i < n) => rtext[to + 1] = "\n"

C27_Witness ==
    /\ pc = "text_done"
    /\ result.kind = "returned"
    /\ Len(cms_pdf_bytes.pages) = 2
    /\ cms_pdf_bytes.pages[1] = PageError
    /\ cms_pdf_bytes.pages[2].kind = "text"
    /\ Len(cms_pdf_bytes.pages[2].text) > 0
    /\ result.value[1] = <<"\n">> \o cms_pdf_bytes.pages[2].text

\* ---------------------------------------------------------------------
\* Specification SpecFill: fill_sif_form, get_form_fields and
\* validate_sif_template applied to bounded templates and value maps
\* ---------------------------------------------------------------------
MaxRequested == 2

TemplateFieldNames == {"A", "B"}
RequestedFieldNames == {"A", "B", "C"}
FieldValues == {<<"x">>, <<"y">>}

FillTemplates ==
    {NoTemplate,
     Template(TRUE, FALSE, TRUE, TRUE, [f \in {"A"} |-> <<>>]),
     Template(TRUE, TRUE, FALSE, TRUE, <<>>),
     Template(TRUE, TRUE, TRUE, FALSE, [f \in {"A"} |-> <<>>])} \cup
    {Template(TRUE, TRUE, TRUE, TRUE, [f \in S |-> <<"o">>]) : S \in SUBSET TemplateFieldNames}

ValueMaps ==
    UNION {[S -> FieldValues] :
             S \in {T \in SUBSET RequestedFieldNames : Cardinality(T) <= MaxRequested}}

InitFill ==
    /\ pc = "fill_call"
    /\ SessionStart
    /\ cms_pdf_bytes = NoDocument
    /\ sif_template_bytes \in FillTemplates
    /\ custom_mapping = None
    /\ flatten \in BOOLEAN
    /\ debug = FALSE
    /\ cms_data = None
    /\ extracted_text = <<>>
    /\ needs_ocr = FALSE
    /\ ocr_calls = 0
    /\ ocr_text = None
    /\ text = <<>>
    /\ sif_values \in ValueMaps
    /\ write_errors = {}
    /\ filled_pdf = None
    /\ report = <<>>
    /\ result = NoResult

CallFillSifForm ==
    /\ pc = "fill_call"
    /\ \E failing \in SUBSET (DOMAIN sif_values) :
          /\ write_errors' = failing
          /\ result' = fill_sif_form(sif_template_bytes, sif_values, flatten, failing)
    /\ pc' = "fill_done"
    /\ UNCHANGED <<session, inputs, extracted_text, needs_ocr, ocr_calls, ocr_text, text,
                   cms_data, sif_values, filled_pdf, report>>

CallGetFormFields ==
    /\ pc = "fill_call"
    /\ result' = Returned(get_form_fields(sif_template_bytes))
    /\ pc' = "fields_done"
    /\ UNCHANGED <<session, inputs, extracted_text, needs_ocr, ocr_calls, ocr_text, text,
                   cms_data, sif_values, write_errors, filled_pdf, report>>

CallValidateSifTemplate ==
    /\ pc = "fill_call"
    /\ result' = Returned(validate_sif_template(sif_template_bytes))
    /\ pc' = "validate_done"
    /\ UNCHANGED <<session, inputs, extracted_text, needs_ocr, ocr_calls, ocr_text, text,
                   cms_data, sif_values, write_errors, filled_pdf, report>>

NextFill == CallFillSifForm \/ CallGetFormFields \/ CallValidateSifTemplate

SpecFill == InitFill /\ [][NextFill]_vars

\* C7: on a readable template with at least one field, fill_sif_form
\* returns a document whatever requested names are absent from the
\* template and whichever single writes fail; every requested field that
\* exists in the template and whose own write did not fail holds its
\* requested value, every other template field keeps its value.
C7_FillSkipsBadFields ==
    (/\ pc = "fill_done"
     /\ sif_template_bytes.opens
     /\ sif_template_bytes.clones
     /\ DOMAIN sif_template_bytes.fields # {}) =>
        /\ result.kind = "returned"
        /\ DOMAIN result.value = DOMAIN sif_template_bytes.fields
        /\ \A f \in DOMAIN sif_template_bytes.fields :
              IF f \in DOMAIN sif_values /\ f \notin write_errors
              THEN result.value[f] = sif_values[f]
              ELSE result.value[f] = sif_template_bytes.fields[f]

C7_Witness ==
    /\ pc = "fill_done"
    /\ DOMAIN sif_template_bytes.fields = {"A", "B"}
    /\ DOMAIN sif_values = {"A", "C"}
    /\ write_errors = {"C"}
    /\ result.kind = "returned"
    /\ result.value["A"] = sif_values["A"]

\* C8: fill_sif_form raises SifFillError whenever the template has no
\* fields at all, for every value map.
C8_NoFieldsIsFatal ==
    (pc = "fill_done" /\ DOMAIN sif_template_bytes.fields = {}) =>
        (result.kind = "raised" /\ result.exc = "SifFillError")

\* C9: get_form_fields returns an empty table for a template without
\* fields; validate_sif_template then reports success with is_valid
\* FALSE, field_count 0 and no fields; in every successful validation
\* is_valid is TRUE exactly when field_count > 0, and field_count is the
\* length of fields.
C9_IntrospectionOfEmptyTemplate ==
    /\ (pc = "fields_done" /\ DOMAIN sif_template_bytes.fields = {}) =>
          result = Returned(<<>>)
    /\ (pc = "validate_done" /\ result.value.success) =>
          /\ result.value.is_valid = (result.value.field_count > 0)
          /\ result.value.field_count = Len(result.value.fields)
    /\ (pc = "validate_done" /\ DOMAIN sif_template_bytes.fields = {}) =>
          /\ result.value.success
          /\ ~result.value.is_valid
          /\ result.value.field_count = 0
          /\ result.value.fields = <<>>

C9_Witness ==
    /\ pc = "validate_done"
    /\ sif_template_bytes.opens
    /\ DOMAIN sif_template_bytes.fields = {}
    /\ result.value.success
    /\ ~result.value.is_valid

\* ---------------------------------------------------------------------
\* Specification SpecProject: cms_to_sif_field_values and
\* get_mapping_report applied to bounded records, mappings and templates
\* ---------------------------------------------------------------------
MaxMapLen == 2

ProjValues == {None, Some(<<>>), Some(<<"a">>), Some(<<"b">>)}

\* a record with five present attributes
FivePresent ==
    [EmptyCmsReportData EXCEPT !["wind_farm"] = Some(<<"a">>),
                               !["turbine_number"] = Some(<<"b">>),
                               !["location"] = Some(<<"a">>),
                               !["ip_address"] = Some(<<"b">>),
                               !["service_date"] = Some(<<"a">>)]

ProjRecords ==
    {[EmptyCmsReportData EXCEPT !["wind_farm"] = w, !["service_date"] = d, !["raw_text"] = t] :
        w \in ProjValues, d \in ProjValues, t \in {None, Some(<<"r">>)}}
    \cup {FivePresent}

ProjKeys == {"wind_farm", "service_date", "raw_text", "owner"}
ProjTargets == {"A", "Date"}

\* dict items: no key twice
ProjMappings ==
    {None} \cup
    {Some(m) : m \in {s \in SeqsUpTo(ProjKeys \X ProjTargets, MaxMapLen) :
                        \A i, j \in 1..Len(s) : i # j => s[i][1] # s[j][1]}}

ProjTemplates ==
    {NoTemplate,
     Template(TRUE, TRUE, FALSE, TRUE, <<>>),
     Template(TRUE, TRUE, TRUE, FALSE, [f \in {"A"} |-> <<>>])} \cup
    {Template(TRUE, TRUE, TRUE, TRUE, [f \in S |-> <<>>]) :
        S \in SUBSET {"A", "Date", "Wind farm number"}}

InitProject ==
    /\ pc = "proj_call"
    /\ SessionStart
    /\ cms_pdf_bytes = NoDocument
    /\ sif_template_bytes \in ProjTemplates
    /\ custom_mapping \in ProjMappings
    /\ flatten = FALSE
    /\ debug = FALSE
    /\ cms_data \in ProjRecords
    /\ LocalsBlank

CallCmsToSifFieldValues ==
    /\ pc = "proj_call"
    /\ sif_values' = cms_to_sif_field_values(cms_data, custom_mapping)
    /\ result' = Returned(sif_values')
    /\ pc' = "proj_done"
    /\ UNCHANGED <<session, inputs, extracted_text, needs_ocr, ocr_calls, ocr_text, text,
                   cms_data, write_errors, filled_pdf, report>>

CallGetMappingReport ==
    /\ pc = "proj_call"
    /\ report' = get_mapping_report(cms_data, sif_template_bytes, custom_mapping)
    /\ result' = Returned(report')
    /\ pc' = "report_done"
    /\ UNCHANGED <<session, inputs, extracted_text, needs_ocr, ocr_calls, ocr_text, text,
                   cms_data, sif_values, write_errors, filled_pdf>>

\* a caller working with custom_mapping asks for the mapping information
CallGetFieldMappingInfo ==
    /\ pc = "proj_call"
    /\ result' = Returned(get_field_mapping_info)
    /\ pc' = "info_done"
    /\ UNCHANGED <<session, inputs, extracted_text, needs_ocr, ocr_calls, ocr_text, text,
                   cms_data, sif_values, write_errors, filled_pdf, report>>

NextProject == CallCmsToSifFieldValues \/ CallGetMappingReport \/ CallGetFieldMappingInfo

SpecProject == InitProject /\ [][NextProject]_vars

\* The attributes of the record's key-value view (to_dict leaves raw_text
\* out) that hold a non-empty string
HasValue(cms, a) ==
    /\ a \in AttributeNames \ {"raw_text"}
    /\ cms[a] # None
    /\ cms[a][1] # <<>>

\* The mapping in effect, read off the inputs
GivenMapping == IF custom_mapping = None THEN CMS_TO_SIF_MAP ELSE custom_mapping[1]

\* C6: the projection has a target field name as key exactly when some
\* mapping pair (attribute, target) has a present, non-empty attribute;
\* each value is the unmodified string of such an attribute; no key lies
\* outside the mapping's targets, no value is empty, and an empty mapping
\* gives an empty projection.
C6_ProjectionIsReference ==
    (pc = "proj_done") =>
        LET m == GivenMapping
            r == result.value
        IN /\ DOMAIN r = {m[i][2] : i \in {j \in 1..Len(m) : HasValue(cms_data, m[j][1])}}
           /\ \A t \in DOMAIN r :
                 /\ \E i \in 1..Len(m) :
                       /\ m[i][2] = t
                       /\ HasValue(cms_data, m[i][1])
                       /\ r[t] = cms_data[m[i][1]][1]
                 /\ r[t] # <<>>
                 /\ t \in {m[i][2] : i \in 1..Len(m)}
           /\ (m = <<>> => r = <<>>)

C6_Witness ==
    /\ pc = "proj_done"
    /\ custom_mapping # None
    /\ Len(custom_mapping[1]) = 2
    /\ cms_data["wind_farm"] = Some(<<>>)
    /\ cms_data["service_date"] = Some(<<"a">>)
    /\ custom_mapping[1][1] = <<"wind_farm", "A">>
    /\ custom_mapping[1][2] = <<"service_date", "Date">>
    /\ result.value = [t \in {"Date"} |-> <<"a">>]

Range(s) == {s[i] : i \in 1..Len(s)}

\* C10: in a report, unmapped_cms_fields is the set of present attribute
\* names of the record that are not keys of the mapping in effect,
\* unfilled_sif_fields is the set of template field names that are not
\* keys of the projection, and every template field is in exactly one of
\* mapping_details' keys and unfilled_sif_fields.
C10_ReportGaps ==
    (pc = "report_done" /\ ~IsErrorReport(report)) =>
        LET m == GivenMapping
            present == {a \in AttributeNames \ {"raw_text"} : cms_data[a] # None}
            template_fields == DOMAIN sif_template_bytes.fields
            details == DOMAIN report.mapping.mapping_details
        IN /\ Range(report.gaps.unmapped_cms_fields) =
                 {a \in present : \A i \in 1..Len(m) : m[i][1] # a}
           /\ report.gaps.unfilled_sif_fields = template_fields \ details
           /\ \A f \in template_fields :
                 (f \in details) # (f \in report.gaps.unfilled_sif_fields)

C10_Witness ==
    /\ pc = "report_done"
    /\ ~IsErrorReport(report)
    /\ custom_mapping # None
    /\ report.gaps.unmapped_cms_fields = <<"service_date">>
    /\ report.gaps.unfilled_sif_fields = {"Date"}
    /\ DOMAIN report.mapping.mapping_details = {"A"}

\* C11: in a report each coverage figure is 'N/A' exactly when its
\* denominator (the record's field count, the template's field count) is
\* 0, and otherwise the percentage successfully_mapped / denominator to
\* one decimal place (the nearest tenth); an empty mapping and a record
\* with 5 present attributes give successfully_mapped = 0, the 5 names in
\* unmapped_cms_fields and cms_coverage = '0.0%'.
C11_CoverageFormatting ==
    (pc = "report_done" /\ ~IsErrorReport(report)) =>
        LET mapped == report.mapping.successfully_mapped
            present == {a \in AttributeNames \ {"raw_text"} : cms_data[a] # None}
            OneDecimal(c, total) ==
                IF total = 0 THEN c.na
                ELSE /\ ~c.na
                     /\ c.tenth \in 0..9
                     /\ c.whole >= 0
                     /\ LET d == (c.whole * 10 + c.tenth) * total - mapped * 1000
                        IN 2 * (IF d < 0 THEN -d ELSE d) <= total
        IN /\ mapped = Cardinality(DOMAIN report.mapping.mapping_details)
           /\ report.cms_extraction.total_fields = Cardinality(present)
           /\ report.sif_form.total_fields = Cardinality(DOMAIN sif_template_bytes.fields)
           /\ OneDecimal(report.coverage.cms_coverage, report.cms_extraction.total_fields)
           /\ OneDecimal(report.coverage.sif_coverage, report.sif_form.total_fields)
           /\ (GivenMapping = <<>> /\ Cardinality(present) = 5) =>
                 /\ mapped = 0
                 /\ Range(report.gaps.unmapped_cms_fields) = present
                 /\ Len(report.gaps.unmapped_cms_fields) = 5
                 /\ report.coverage.cms_coverage = [na |-> FALSE, whole |-> 0, tenth |-> 0]

C11_Witness ==
    /\ pc = "report_done"
    /\ ~IsErrorReport(report)
    /\ custom_mapping = Some(<<>>)
    /\ cms_data = FivePresent
    /\ report.mapping.successfully_mapped = 0
    /\ report.coverage.cms_coverage = [na |-> FALSE, whole |-> 0, tenth |-> 0]
    /\ report.coverage.sif_coverage.na

\* C19: raw_text is left out of every external view of the record:
\* to_dict has no key raw_text and no absent attribute, and neither the
\* projection nor the report's extracted_fields, unmapped_cms_fields and
\* mapping_details hold the name raw_text or the full source text, also
\* when the mapping in effect has raw_text as a key.
C19_RawTextExcluded ==
    LET view == to_dict(cms_data)
        FullText(v) == cms_data["raw_text"] # None /\ v = cms_data["raw_text"][1]
    IN /\ (pc \in {"proj_done", "report_done"}) =>
             /\ "raw_text" \notin DOMAIN view
             /\ \A k \in DOMAIN view : cms_data[k] = Some(view[k])
             /\ DOMAIN view = {a \in AttributeNames \ {"raw_text"} : cms_data[a] # None}
       /\ (pc = "proj_done") =>
             \A t \in DOMAIN result.value : ~FullText(result.value[t])
       /\ (pc = "report_done" /\ ~IsErrorReport(report)) =>
             /\ "raw_text" \notin Range(report.cms_extraction.extracted_fields)
             /\ "raw_text" \notin Range(report.gaps.unmapped_cms_fields)
             /\ \A t \in DOMAIN report.mapping.mapping_details :
                   ~FullText(report.mapping.mapping_details[t])

C19_Witness ==
    /\ pc = "proj_done"
    /\ cms_data["raw_text"] = Some(<<"r">>)
    /\ cms_data["wind_farm"] = Some(<<"a">>)
    /\ custom_mapping = Some(<< <<"raw_text", "A">>, <<"wind_farm", "Date">> >>)
    /\ result.value = [t \in {"Date"} |-> <<"a">>]

\* C20: every key of the mapping in effect, and so every key of the
\* default table CMS_TO_SIF_MAP, is an attribute of CmsReportData other
\* than raw_text.
C20_MappingKeysAreAttributes ==
    (pc = "proj_done") =>
        MappingKeys(GivenMapping) \subseteq AttributeNames \ {"raw_text"}

\* C21: the reverse index the system exposes is the inverse of the mapping
\* in effect: for the default mapping SIF_TO_CMS_MAP[CMS_TO_SIF_MAP[a]] = a
\* for every key a and both tables have the same size, and with a custom
\* mapping (unique on both sides) the exposed reverse index is the inverse
\* of that custom mapping, not of the default.
C21_ReverseIndexFollowsMapping ==
    (pc = "info_done") =>
        LET m == GivenMapping
            rev == result.value.sif_to_cms
            unique == \A i, j \in 1..Len(m) :
                         i # j => m[i][1] # m[j][1] /\ m[i][2] # m[j][2]
        IN unique =>
              /\ DOMAIN rev = MappingTargets(m)
              /\ \A i \in 1..Len(m) : rev[m[i][2]] = m[i][1]
              /\ Cardinality(DOMAIN rev) = Len(m)

\* The entries of the mapping in effect that write target t: their
\* attribute is present and non-empty
Writers(t) ==
    {i \in 1..Len(GivenMapping) :
        GivenMapping[i][2] = t /\ HasValue(cms_data, GivenMapping[i][1])}

\* C28: when several entries of the mapping in effect name the same
\* target, the projection holds for it the value of the last entry, in
\* mapping order, whose attribute is present and non-empty; an entry with
\* an absent or empty attribute erases nothing; and successfully_mapped
\* counts each written target once.
C28_LastWriterWins ==
    LET written == {t \in MappingTargets(GivenMapping) : Writers(t) # {}}
        Last(t) == CHOOSE i \in Writers(t) : \A j \in Writers(t) : j <= i
        Holds(values) ==
            /\ DOMAIN values = written
            /\ \A t \in written : values[t] = cms_data[GivenMapping[Last(t)][1]][1]
    IN /\ (pc = "proj_done") => Holds(result.value)
       /\ (pc = "report_done" /\ ~IsErrorReport(report)) =>
             /\ Holds(report.mapping.mapping_details)
             /\ report.mapping.successfully_mapped = Cardinality(written)

\* two entries write the same target with different values
C28_Witness ==
    /\ pc = "report_done"
    /\ ~IsErrorReport(report)
    /\ custom_mapping = Some(<< <<"service_date", "A">>, <<"wind_farm", "A">> >>)
    /\ cms_data["service_date"] = Some(<<"b">>)
    /\ cms_data["wind_farm"] = Some(<<"a">>)
    /\ report.mapping.mapping_details = [t \in {"A"} |-> <<"a">>]
    /\ report.mapping.successfully_mapped = 1

\* C29: in every report on a template with fields successfully_mapped
\* exceeds neither cms_extraction.total_fields nor sif_form.total_fields,
\* no coverage percentage is above 100.0, and successfully_mapped plus
\* the number of unfilled_sif_fields is sif_form.total_fields.
C29_MappedCountsPlacedValues ==
    (pc = "report_done" /\ ~IsErrorReport(report) /\ report.sif_form.total_fields > 0) =>
        LET mapped == report.mapping.successfully_mapped
            AtMost100(c) == c.na \/ c.whole < 100 \/ (c.whole = 100 /\ c.tenth = 0)
        IN /\ mapped <= report.cms_extraction.total_fields
           /\ mapped <= report.sif_form.total_fields
           /\ AtMost100(report.coverage.cms_coverage)
           /\ AtMost100(report.coverage.sif_coverage)
           /\ mapped + Cardinality(report.gaps.unfilled_sif_fields)
                 = report.sif_form.total_fields

\* ---------------------------------------------------------------------
\* Specification Spec: main.convert_cms_to_sif, stage by stage
\*   start -> (ocr) -> parse -> project -> fill -> report -> done
\* ---------------------------------------------------------------------
LongLine == Repeat("x", OcrThreshold)

TextDated ==
    <<"W","i","n","d"," ","F","a","r","m",":"," ","A","B","C","-","1","2","\n","S","e","r","v","i","c","e"," ","D","a","t","e",":"," ","0","1","/","0","2","/","2","0","2","4","\n">>
    \o LongLine

TextUndated ==
    <<"W","i","n","d"," ","F","a","r","m",":"," ","A","B","C","-","1","2","\n","N","a","m","e",":"," ","T","-","0","0","4","\n">>
    \o LongLine

TextShortDated == <<"D","a","t","e",":"," ","0","1","/","0","2","/","2","0","2","4">>

TextShortUndated == <<"N","a","m","e",":"," ","T","-","0","0","4">>

SourceDocs ==
    {NoDocument,
     [opens |-> TRUE, pages |-> <<>>],
     [opens |-> TRUE, pages |-> <<PageNone>>],
     [opens |-> TRUE, pages |-> <<PageText(TextDated)>>],
     [opens |-> TRUE, pages |-> <<PageText(TextUndated)>>],
     [opens |-> TRUE, pages |-> <<PageText(TextShortDated)>>],
     [opens |-> TRUE, pages |-> <<PageError, PageText(TextShortUndated)>>]}

\* What the OCR capability may hand back: nothing, the placeholder of
\* the shipped stub, a text starting with the placeholder, or a text
OcrDated ==
    <<"S","e","r","v","i","c","e"," ","D","a","t","e",":"," ","0","3","/","0","4","/","2","0","2","5">>

OcrUndated == <<"T","u","r","b","i","n","e"," ","N","u","m","b","e","r",":"," ","7">>

OcrResults ==
    {<<>>, OcrPlaceholder, OcrPlaceholderPrefix \o OcrDated, OcrDated, OcrUndated}

PipelineTemplates ==
    {NoTemplate,
     Template(TRUE, FALSE, TRUE, TRUE, [f \in {"Date"} |-> <<>>]),
     Template(TRUE, TRUE, FALSE, TRUE, <<>>),
     Template(TRUE, TRUE, TRUE, TRUE, <<>>),
     Template(TRUE, TRUE, TRUE, FALSE, [f \in {"Date"} |-> <<>>]),
     Template(TRUE, TRUE, TRUE, TRUE,
              [f \in {"Date", "Wind farm number", "Service technician 2"} |-> <<>>])}

PipelineMappings ==
    {None,
     Some(<<>>),
     Some(<< <<"service_date", "Date">>, <<"turbine_number", "Service technician 2">> >>)}

Init ==
    /\ pc = "start"
    /\ SessionStart
    /\ cms_pdf_bytes \in SourceDocs
    /\ sif_template_bytes \in PipelineTemplates
    /\ custom_mapping \in PipelineMappings
    /\ flatten \in BOOLEAN
    /\ debug \in BOOLEAN
    /\ cms_data = None
    /\ LocalsBlank

\* process_cms_report: text, needs_ocr = extract_pdf_text(cms_pdf_bytes)
ExtractText ==
    /\ pc = "start"
    /\ LET r == extract_pdf_text(cms_pdf_bytes)
       IN IF r.exc # "none"
          THEN /\ result' = process_cms_report_except(r.exc)
               /\ pc' = "done"
               /\ UNCHANGED <<extracted_text, needs_ocr, text>>
          ELSE /\ extracted_text' = r.text
               /\ text' = r.text
               /\ needs_ocr' = r.needs_ocr
               /\ pc' = after_extract(r.needs_ocr)
               /\ UNCHANGED result
    /\ UNCHANGED <<session, inputs, ocr_calls, ocr_text, cms_data, sif_values, write_errors,
                   filled_pdf, report>>

\* process_cms_report: ocr_text = extract_text_with_ocr(cms_pdf_bytes)
Ocr ==
    /\ pc = "ocr"
    /\ \E returned \in OcrResults :
          /\ ocr_text' = Some(returned)
          /\ text' = text_after_ocr(text, returned)
    /\ ocr_calls' = ocr_calls + 1
    /\ pc' = "parse"
    /\ UNCHANGED <<session, inputs, extracted_text, needs_ocr, cms_data, sif_values,
                   write_errors, filled_pdf, report, result>>

\* process_cms_report: cms_data = parse_cms_report(text); return cms_data
Parse ==
    /\ pc = "parse"
    /\ cms_data' = parse_cms_report(text)
    /\ pc' = "project"
    /\ UNCHANGED <<session, inputs, extracted_text, needs_ocr, ocr_calls, ocr_text, text,
                   sif_values, write_errors, filled_pdf, report, result>>

\* create_filled_sif: sif_values = cms_to_sif_field_values(cms, custom_mapping)
Project ==
    /\ pc = "project"
    /\ sif_values' = cms_to_sif_field_values(cms_data, custom_mapping)
    /\ pc' = "fill"
    /\ UNCHANGED <<session, inputs, extracted_text, needs_ocr, ocr_calls, ocr_text, text,
                   cms_data, write_errors, filled_pdf, report, result>>

\* create_filled_sif: filled_pdf = fill_sif_form(...)
Fill ==
    /\ pc = "fill"
    /\ \E failing \in SUBSET (DOMAIN sif_values) :
          LET r == fill_sif_form(sif_template_bytes, sif_values, flatten, failing)
          IN /\ write_errors' = failing
             /\ IF r.kind = "raised"
                THEN /\ result' = create_sif_from_cms_except(r.exc)
                     /\ pc' = "done"
                     /\ UNCHANGED filled_pdf
                ELSE /\ filled_pdf' = Some(r.value)
                     /\ pc' = "report"
                     /\ UNCHANGED result
    /\ UNCHANGED <<session, inputs, extracted_text, needs_ocr, ocr_calls, ocr_text, text,
                   cms_data, sif_values, report>>

\* create_filled_sif: report = get_mapping_report(...); return
MakeReport ==
    /\ pc = "report"
    /\ report' = get_mapping_report(cms_data, sif_template_bytes, custom_mapping)
    /\ LET r == create_filled_sif_return(filled_pdf[1], report', debug)
       IN result' = IF r.kind = "raised" THEN create_sif_from_cms_except(r.exc) ELSE r
    /\ pc' = "done"
    /\ UNCHANGED <<session, inputs, extracted_text, needs_ocr, ocr_calls, ocr_text, text,
                   cms_data, sif_values, write_errors, filled_pdf>>

Next == ExtractText \/ Ocr \/ Parse \/ Project \/ Fill \/ MakeReport

Spec == Init /\ [][Next]_vars

\* C1: convert_cms_to_sif ends in one of two ways: it returns a (filled
\* document, report) pair, or it raises ConversionError and returns no
\* document; no other exception kind reaches the caller; a source that
\* cannot be loaded gives the message 'Failed to load CMS PDF', a fill
\* failure 'Failed to fill SIF template'.
C1_TwoOutcomes ==
    /\ (pc # "done") => result = NoResult
    /\ (pc = "done") =>
          \/ /\ result.kind = "returned"
             /\ filled_pdf # None
             /\ result.value = <<filled_pdf[1], report>>
          \/ /\ result.kind = "raised"
             /\ result.exc = "ConversionError"
             /\ DOMAIN result = {"kind", "exc", "msg"}
             /\ (~cms_pdf_bytes.opens => result.msg = "Failed to load CMS PDF")
             /\ (filled_pdf = None /\ cms_pdf_bytes.opens =>
                    result.msg = "Failed to fill SIF template")

C1_Witness ==
    /\ pc = "done"
    /\ cms_data # None
    /\ result = Raised("ConversionError", "Failed to fill SIF template")

\* C2: every record that reaches projection and fill has a service date
\* (the current date when extraction found none).
C2_ServiceDateBeforeProjection ==
    (pc \in {"project", "fill", "report"}) => cms_data["service_date"] # None

\* C4: the OCR capability is called at most once per conversion and only
\* when extract_pdf_text returned needs_ocr = TRUE; when it returned
\* FALSE the text handed to the field extractor is the extracted text.
C4_OcrOnlyWhenNeeded ==
    /\ ocr_calls <= 1
    /\ (ocr_calls = 1 \/ pc = "ocr") => needs_ocr
    /\ (~needs_ocr /\ pc = "parse") => text = extracted_text
    /\ (~needs_ocr /\ cms_data # None) => cms_data["raw_text"] = Some(extracted_text)

C4_Witness ==
    /\ pc = "project"
    /\ ~needs_ocr
    /\ ocr_calls = 0
    /\ Len(extracted_text) >= 100
    /\ cms_data["raw_text"] = Some(extracted_text)

\* C5: when OCR was triggered and returned nothing or a text starting
\* with the 'not implemented' placeholder, process_cms_report does not
\* fail and parses the text extracted before; the OCR result replaces
\* that text only when it is non-empty and does not start with the
\* placeholder.
C5_OcrDegradesGracefully ==
    (ocr_calls = 1) =>
        LET unusable == ocr_text[1] \in {<<>>, OcrPlaceholder, OcrPlaceholderPrefix \o OcrDated}
            parsed == IF unusable THEN extracted_text ELSE ocr_text[1]
        IN /\ (pc = "parse") => (text = parsed /\ result = NoResult)
           /\ (pc # "parse") => (cms_data # None /\ cms_data["raw_text"] = Some(parsed))
           /\ (result.kind = "raised") =>
                 result.msg \in {"Failed to fill SIF template", "Failed to generate SIF"}

C5_Witness ==
    /\ pc = "project"
    /\ ocr_calls = 1
    /\ ocr_text = Some(OcrPlaceholder)
    /\ extracted_text = <<>>
    /\ cms_data["raw_text"] = Some(<<>>)

\* C12: a failure while computing the mapping report never keeps a
\* conversion from returning the document it has filled: once
\* fill_sif_form has succeeded, the conversion ends by returning that
\* document together with the report (an error-only report included),
\* whatever the debug flag.
C12_ReportNeverBlocksDocument ==
    (pc = "done" /\ filled_pdf # None) =>
        result = Returned(<<filled_pdf[1], report>>)

\* C13: the debug flag changes nothing but the narration: the conversion
\* ends as the conversion of the same inputs, with the same collaborator
\* behaviour and the opposite debug flag, ends.
C13_DebugOnlyNarration ==
    (pc = "done") =>
        result = convert_cms_to_sif(cms_pdf_bytes, sif_template_bytes, custom_mapping,
                                    flatten, ~debug,
                                    IF ocr_text = None THEN <<>> ELSE ocr_text[1],
                                    write_errors)

PreviewPages ==
    {PageError, PageNone, PageText(TextShortDated), PageText(TextShortUndated)}

PreviewDocs ==
    SourceDocs \cup
    {[opens |-> TRUE, pages |-> p] : p \in SeqsUpTo(PreviewPages, MaxPages)}

InitPreview ==
    /\ pc = "preview_call"
    /\ SessionStart
    /\ cms_pdf_bytes \in PreviewDocs
    /\ sif_template_bytes = NoTemplate
    /\ custom_mapping = None
    /\ flatten = FALSE
    /\ debug = FALSE
    /\ cms_data = None
    /\ LocalsBlank

CallGetCmsPreview ==
    /\ pc = "preview_call"
    /\ LET extracted == extract_pdf_text(cms_pdf_bytes)
           ocr == extracted.exc = "none" /\ after_extract(extracted.needs_ocr) = "ocr"
       IN \E returned \in (IF ocr THEN OcrResults ELSE {<<>>}) :
             /\ ocr_calls' = IF ocr THEN 1 ELSE 0
             /\ ocr_text' = IF ocr THEN Some(returned) ELSE None
             /\ needs_ocr' = ocr
             /\ IF extracted.exc # "none"
                THEN /\ result' = Returned(get_cms_preview(process_cms_report_except(extracted.exc)))
                     /\ UNCHANGED <<extracted_text, text, cms_data>>
                ELSE /\ extracted_text' = extracted.text
                     /\ text' = IF ocr THEN text_after_ocr(extracted.text, returned)
                                ELSE extracted.text
                     /\ cms_data' = parse_cms_report(text')
                     /\ result' = Returned(get_cms_preview(Returned(cms_data')))
    /\ pc' = "preview_done"
    /\ UNCHANGED <<session, inputs, sif_values, write_errors, filled_pdf, report>>

NextPreview == CallGetCmsPreview

SpecPreview == InitPreview /\ [][NextPreview]_vars

\* C15: for a source document that can be read, get_cms_preview returns
\* success = TRUE with the record's key-value data and a summary; it
\* returns success = FALSE only when processing the source failed.
C15_PreviewOfReadableSource ==
    (pc = "preview_done") =>
        LET processed == process_cms_report(cms_pdf_bytes,
                                            IF ocr_text = None THEN <<>> ELSE ocr_text[1])
        IN /\ (processed.kind = "returned" /\ DOMAIN to_dict(processed.value) # {}) =>
                 /\ result.value.success
                 /\ result.value.data = to_dict(processed.value)
                 /\ "summary" \in DOMAIN result.value
           /\ ~result.value.success => processed.kind = "raised"

\* ---------------------------------------------------------------------
\* Specification SpecParse: cms_parser.parse_cms_report applied to texts
\* of up to MaxLines labelled lines
\* ---------------------------------------------------------------------
MaxLines == 2

\* the labelled lines the texts are made of
ParseLines ==
    {\* "Name: T-004"
     <<"N","a","m","e",":"," ","T","-","0","0","4">>,
     \* "Farm Name: Alpha"
     <<"F","a","r","m"," ","N","a","m","e",":"," ","A","l","p","h","a">>,
     \* "Number: WF-7"
     <<"N","u","m","b","e","r",":"," ","W","F","-","7">>,
     \* "Serial Number: S1"
     <<"S","e","r","i","a","l"," ","N","u","m","b","e","r",":"," ","S","1">>,
     \* "Turbine Number: T1"
     <<"T","u","r","b","i","n","e"," ","N","u","m","b","e","r",":"," ","T","1">>,
     \* "wind farm: ABC-12 "
     <<"w","i","n","d"," ","f","a","r","m",":"," ","A","B","C","-","1","2"," ">>,
     \* "IP: 10.0.0.1"
     <<"I","P",":"," ","1","0",".","0",".","0",".","1">>,
     \* "IP: 10.0.0.1234"
     <<"I","P",":"," ","1","0",".","0",".","0",".","1","2","3","4">>,
     \* "MAC: 00:1A:ZZ"
     <<"M","A","C",":"," ","0","0",":","1","A",":","Z","Z">>,
     \* "Name:  "
     <<"N","a","m","e",":"," "," ">>}

ParseTexts == {join_lines(ls) : ls \in SeqsUpTo(ParseLines, MaxLines)}

InitParse ==
    /\ pc = "parse_call"
    /\ SessionStart
    /\ cms_pdf_bytes = NoDocument
    /\ sif_template_bytes = NoTemplate
    /\ custom_mapping = None
    /\ flatten = FALSE
    /\ debug = FALSE
    /\ cms_data = None
    /\ extracted_text = <<>>
    /\ needs_ocr = FALSE
    /\ ocr_calls = 0
    /\ ocr_text = None
    /\ text \in ParseTexts
    /\ sif_values = <<>>
    /\ write_errors = {}
    /\ filled_pdf = None
    /\ report = <<>>
    /\ result = NoResult

\* cms_data = parse_cms_report(text)
CallParseCmsReport ==
    /\ pc = "parse_call"
    /\ cms_data' = parse_cms_report(text)
    /\ result' = Returned(cms_data')
    /\ pc' = "parse_done"
    /\ UNCHANGED <<session, inputs, extracted_text, needs_ocr, ocr_calls, ocr_text, text,
                   sif_values, write_errors, filled_pdf, report>>

NextParse == CallParseCmsReport

SpecParse == InitParse /\ [][NextParse]_vars

\* The pieces of a text between the occurrences of a separator
RECURSIVE SplitAt(_, _)
SplitAt(s, sep) ==
    IF \A i \in 1..Len(s) : s[i] # sep THEN <<s>>
    ELSE LET k == Min({i \in 1..Len(s) : s[i] = sep})
         IN <<SubSeq(s, 1, k - 1)>> \o SplitAt(SubSeq(s, k + 1, Len(s)), sep)

\* The lines of a text
SplitLines(s) == SplitAt(s, "\n")

LabelName == <<"N","a","m","e",":">>
LabelNumber == <<"N","u","m","b","e","r",":">>

\* The text has a line that starts with the label; the trimmed rest of
\* the first such line
HasLine(s, label) == \E i \in 1..Len(SplitLines(s)) : startswith(SplitLines(s)[i], label)

LineValue(s, label) ==
    LET ls == SplitLines(s)
        k == Min({i \in 1..Len(ls) : startswith(ls[i], label)})
    IN strip(SubSeq(ls[k], Len(label) + 1, Len(ls[k])))

\* ... and that line has a value
HasValuedLine(s, label) == HasLine(s, label) /\ LineValue(s, label) # <<>>

\* C16: when no turbine-number rule matches and the text has a 'Name:'
\* line with a value, turbine_number is the trimmed value of that line;
\* when no wind-farm rule matches and the text has a 'Number:' line with
\* a value, wind_farm is the trimmed value of that line.
C16_FallbackFires ==
    (pc = "parse_done") =>
        /\ (find(pat_turbine_number, text) = None /\ HasValuedLine(text, LabelName)) =>
               cms_data["turbine_number"] = Some(LineValue(text, LabelName))
        /\ (find(pat_wind_farm, text) = None /\ HasValuedLine(text, LabelNumber)) =>
               cms_data["wind_farm"] = Some(LineValue(text, LabelNumber))

\* A text with the label of every line (the letters before its first
\* colon) put in upper case or in lower case
LabelCase(s, upper) ==
    LET ls == SplitLines(s)
        Cased(c) == IF c \in Lower \cup Upper
                    THEN LET k == CHOOSE i \in 1..Len(LowerSeq) : c \in {LowerSeq[i], UpperSeq[i]}
                         IN IF upper THEN UpperSeq[k] ELSE LowerSeq[k]
                    ELSE c
        CasedLine(line) ==
            LET colons == {i \in 1..Len(line) : line[i] = ":"}
                k == IF colons = {} THEN Len(line) + 1 ELSE Min(colons)
            IN [j \in 1..Len(line) |-> IF j < k THEN Cased(line[j]) ELSE line[j]]
    IN join_lines([i \in 1..Len(ls) |-> CasedLine(ls[i])])

\* C17: every rule matches its label whatever the letter case: a text
\* and the same text with its labels in upper case or in lower case give
\* records with the same attribute values.
C17_LabelsCaseInsensitive ==
    (pc = "parse_done") =>
        \A upper \in BOOLEAN :
            \A a \in AttributeNames \ {"raw_text"} :
                parse_cms_report(LabelCase(text, upper))[a] = cms_data[a]

LabelIp == <<"I","P",":">>
LabelMac == <<"M","A","C",":">>

Hex == Digits \cup {"a","b","c","d","e","f","A","B","C","D","E","F"}

\* four groups of 1 to 3 digits separated by dots
IsDottedQuad(v) ==
    LET groups == SplitAt(v, ".")
    IN /\ Len(groups) = 4
       /\ \A i \in 1..4 :
             /\ Len(groups[i]) \in 1..3
             /\ \A j \in 1..Len(groups[i]) : groups[i][j] \in Digits

\* groups of hex digits separated by colons
IsColonHex(v) ==
    LET groups == SplitAt(v, ":")
    IN \A i \in 1..Len(groups) :
          /\ Len(groups[i]) >= 1
          /\ \A j \in 1..Len(groups[i]) : groups[i][j] \in Hex

\* C18: ip_address, turbine_ip and gateway are absent or a dotted quad
\* of four groups of 1 to 3 digits, ddaus_mac is absent or a
\* colon-separated hex value; the value stored for a labelled line is the
\* whole value of that line, never a truncation of a value that does not
\* fit the shape.
C18_AddressShapes ==
    (pc = "parse_done") =>
        /\ \A a \in {"ip_address", "turbine_ip", "gateway"} :
              cms_data[a] = None \/ IsDottedQuad(cms_data[a][1])
        /\ cms_data["ddaus_mac"] = None \/ IsColonHex(cms_data["ddaus_mac"][1])
        /\ (HasLine(text, LabelIp) /\ cms_data["ip_address"] # None) =>
              cms_data["ip_address"][1] = LineValue(text, LabelIp)
        /\ (HasLine(text, LabelMac) /\ cms_data["ddaus_mac"] # None) =>
              cms_data["ddaus_mac"][1] = LineValue(text, LabelMac)

\* C24: the cross-attribute fallback only flows forward and never
\* overrides a dedicated match: when a turbine-number rule matches,
\* turbine_number is that match; when a wind-farm rule matches, wind_farm
\* is that match; and in a text with no wind-farm match and no 'Number:'
\* line, wind_farm stays absent whatever a 'Name:' line or the
\* turbine-number rule captured, as turbine_number stays absent in a text
\* with no turbine-number match and no 'Name:' line whatever a 'Number:'
\* line holds.
C24_FallbackOnlyForward ==
    (pc = "parse_done") =>
        LET dedicated_tn == find(pat_turbine_number, text)
            dedicated_wf == find(pat_wind_farm, text)
        IN /\ (dedicated_tn # None) => cms_data["turbine_number"] = dedicated_tn
           /\ (dedicated_wf # None) => cms_data["wind_farm"] = dedicated_wf
           /\ (/\ dedicated_wf = None
               /\ ~HasLine(text, LabelNumber)
               /\ (HasValuedLine(text, LabelName) \/ dedicated_tn # None)) =>
                  cms_data["wind_farm"] = None
           /\ (/\ dedicated_tn = None
               /\ ~HasLine(text, LabelName)
               /\ HasValuedLine(text, LabelNumber)) =>
                  cms_data["turbine_number"] = None

\* C25: the generic fallback rules are line-anchored: in a text with no
\* line that starts with 'Name:' and no turbine-number match,
\* turbine_number is absent, and in a text with no line that starts with
\* 'Number:' and no wind-farm match, wind_farm is absent, whatever labels
\* ending in 'Name:' or 'Number:' stand in the middle of its lines.
C25_FallbackRulesLineAnchored ==
    (pc = "parse_done") =>
        /\ (~HasLine(text, LabelName) /\ find(pat_turbine_number, text) = None) =>
               cms_data["turbine_number"] = None
        /\ (~HasLine(text, LabelNumber) /\ find(pat_wind_farm, text) = None) =>
               cms_data["wind_farm"] = None

\* C26: parse_cms_report returns a record for every text, and each
\* attribute of its key-value view is absent or a non-empty string with
\* no surrounding whitespace.
C26_NoEmptyAttribute ==
    (pc = "parse_done") =>
        /\ result.kind = "returned"
        /\ \A a \in AttributeNames \ {"raw_text"} :
              \/ cms_data[a] = None
              \/ /\ cms_data[a][1] # <<>>
                 /\ strip(cms_data[a][1]) = cms_data[a][1]

\* C30: in every record of parse_cms_report turbine_ip equals ip_address
\* (both absent or the same value), and the projection of the record under
\* the default mapping gives 'IP address DDAU' and 'IP address of the
\* wind turbine' the same value or holds neither.
C30_UnitIpIsNetworkIp ==
    (pc = "parse_done") =>
        LET v == cms_to_sif_field_values(cms_data, None)
            ddau == <<"ip_address", "IP address DDAU">>
            unit == <<"turbine_ip", "IP address of the wind turbine">>
        IN /\ cms_data["turbine_ip"] = cms_data["ip_address"]
           /\ \E i, j \in 1..Len(CMS_TO_SIF_MAP) :
                 CMS_TO_SIF_MAP[i] = ddau /\ CMS_TO_SIF_MAP[j] = unit
           /\ (ddau[2] \in DOMAIN v) = (unit[2] \in DOMAIN v)
           /\ (ddau[2] \in DOMAIN v) => v[ddau[2]] = v[unit[2]]

C30_Witness ==
    /\ pc = "parse_done"
    /\ cms_data["ip_address"] = Some(<<"1","0",".","0",".","0",".","1">>)
    /\ cms_data["turbine_ip"] = Some(<<"1","0",".","0",".","0",".","1">>)
    /\ cms_data["gateway"] = None
    /\ cms_to_sif_field_values(cms_data, None)["IP address of the wind turbine"]
          = <<"1","0",".","0",".","0",".","1">>

\* ---------------------------------------------------------------------
\* Specification SpecPair: two calls of main.convert_cms_to_sif whose
\* stages interleave.  Each variable holds one value per call: the
\* arguments and locals of a call live in its own frame, and the code has
\* no module-level variable that a conversion assigns to.
\* ---------------------------------------------------------------------
Calls == {1, 2}

\* the arguments of one call
PairArguments ==
    {<<[opens |-> TRUE, pages |-> <<PageText(TextShortDated)>>],
       Template(TRUE, TRUE, TRUE, TRUE,
                [f \in {"Date", "Wind farm number", "Service technician 2"} |-> <<>>]),
       None, FALSE, FALSE>>,
     <<[opens |-> TRUE, pages |-> <<PageError, PageText(TextShortUndated)>>],
       Template(TRUE, TRUE, TRUE, TRUE,
                [f \in {"Date", "Wind farm number", "Service technician 2"} |-> <<>>]),
       Some(<< <<"service_date", "Date">>, <<"turbine_number", "Service technician 2">> >>),
       TRUE, TRUE>>,
     <<NoDocument, NoTemplate, None, FALSE, FALSE>>,
     <<[opens |-> TRUE, pages |-> <<PageText(TextShortDated)>>],
       Template(TRUE, TRUE, TRUE, FALSE, [f \in {"Date"} |-> <<>>]),
       None, FALSE, TRUE>>}

InitPair ==
    /\ pc = [c \in Calls |-> "start"]
    /\ SessionStart
    /\ \E a \in [Calls -> PairArguments] :
          /\ cms_pdf_bytes = [c \in Calls |-> a[c][1]]
          /\ sif_template_bytes = [c \in Calls |-> a[c][2]]
          /\ custom_mapping = [c \in Calls |-> a[c][3]]
          /\ flatten = [c \in Calls |-> a[c][4]]
          /\ debug = [c \in Calls |-> a[c][5]]
    /\ cms_data = [c \in Calls |-> None]
    /\ extracted_text = [c \in Calls |-> <<>>]
    /\ needs_ocr = [c \in Calls |-> FALSE]
    /\ ocr_calls = [c \in Calls |-> 0]
    /\ ocr_text = [c \in Calls |-> None]
    /\ text = [c \in Calls |-> <<>>]
    /\ sif_values = [c \in Calls |-> <<>>]
    /\ write_errors = [c \in Calls |-> {}]
    /\ filled_pdf = [c \in Calls |-> None]
    /\ report = [c \in Calls |-> <<>>]
    /\ result = [c \in Calls |-> NoResult]

\* process_cms_report of call c: text, needs_ocr = extract_pdf_text(cms_pdf_bytes)
ExtractTextOf(c) ==
    /\ pc[c] = "start"
    /\ LET r == extract_pdf_text(cms_pdf_bytes[c])
       IN IF r.exc # "none"
          THEN /\ result' = [result EXCEPT ![c] = process_cms_report_except(r.exc)]
               /\ pc' = [pc EXCEPT ![c] = "done"]
               /\ UNCHANGED <<extracted_text, needs_ocr, text>>
          ELSE /\ extracted_text' = [extracted_text EXCEPT ![c] = r.text]
               /\ text' = [text EXCEPT ![c] = r.text]
               /\ needs_ocr' = [needs_ocr EXCEPT ![c] = r.needs_ocr]
               /\ pc' = [pc EXCEPT ![c] = after_extract(r.needs_ocr)]
               /\ UNCHANGED result
    /\ UNCHANGED <<session, inputs, ocr_calls, ocr_text, cms_data, sif_values, write_errors,
                   filled_pdf, report>>

\* process_cms_report of call c: ocr_text = extract_text_with_ocr(cms_pdf_bytes)
OcrOf(c) ==
    /\ pc[c] = "ocr"
    /\ \E returned \in {<<>>, OcrDated} :   \* the capability hands back nothing, or a text
          /\ ocr_text' = [ocr_text EXCEPT ![c] = Some(returned)]
          /\ text' = [text EXCEPT ![c] = text_after_ocr(text[c], returned)]
    /\ ocr_calls' = [ocr_calls EXCEPT ![c] = ocr_calls[c] + 1]
    /\ pc' = [pc EXCEPT ![c] = "parse"]
    /\ UNCHANGED <<session, inputs, extracted_text, needs_ocr, cms_data, sif_values,
                   write_errors, filled_pdf, report, result>>

\* process_cms_report of call c: cms_data = parse_cms_report(text)
ParseOf(c) ==
    /\ pc[c] = "parse"
    /\ cms_data' = [cms_data EXCEPT ![c] = parse_cms_report(text[c])]
    /\ pc' = [pc EXCEPT ![c] = "project"]
    /\ UNCHANGED <<session, inputs, extracted_text, needs_ocr, ocr_calls, ocr_text, text,
                   sif_values, write_errors, filled_pdf, report, result>>

\* a projection step that keeps its result in one place for all calls
ProjectOf_shared_values(c) ==
    /\ pc[c] = "project"
    /\ sif_values' = [k \in Calls |-> cms_to_sif_field_values(cms_data[c], custom_mapping[c])]
    /\ pc' = [pc EXCEPT ![c] = "fill"]
    /\ UNCHANGED <<session, inputs, extracted_text, needs_ocr, ocr_calls, ocr_text, text,
                   cms_data, write_errors, filled_pdf, report, result>>

\* create_filled_sif of call c: sif_values = cms_to_sif_field_values(cms, custom_mapping)
ProjectOf(c) ==
    /\ pc[c] = "project"
    /\ sif_values' = [sif_values EXCEPT
                         ![c] = cms_to_sif_field_values(cms_data[c], custom_mapping[c])]
    /\ pc' = [pc EXCEPT ![c] = "fill"]
    /\ UNCHANGED <<session, inputs, extracted_text, needs_ocr, ocr_calls, ocr_text, text,
                   cms_data, write_errors, filled_pdf, report, result>>

\* create_filled_sif of call c: filled_pdf = fill_sif_form(...)
FillOf(c) ==
    /\ pc[c] = "fill"
    /\ \E failing \in SUBSET (DOMAIN sif_values[c]) :
          LET r == fill_sif_form(sif_template_bytes[c], sif_values[c], flatten[c], failing)
          IN /\ write_errors' = [write_errors EXCEPT ![c] = failing]
             /\ IF r.kind = "raised"
                THEN /\ result' = [result EXCEPT ![c] = create_sif_from_cms_except(r.exc)]
                     /\ pc' = [pc EXCEPT ![c] = "done"]
                     /\ UNCHANGED filled_pdf
                ELSE /\ filled_pdf' = [filled_pdf EXCEPT ![c] = Some(r.value)]
                     /\ pc' = [pc EXCEPT ![c] = "report"]
                     /\ UNCHANGED result
    /\ UNCHANGED <<session, inputs, extracted_text, needs_ocr, ocr_calls, ocr_text, text,
                   cms_data, sif_values, report>>

\* create_filled_sif of call c: report = get_mapping_report(...); return
MakeReportOf(c) ==
    /\ pc[c] = "report"
    /\ report' = [report EXCEPT
                     ![c] = get_mapping_report(cms_data[c], sif_template_bytes[c],
                                               custom_mapping[c])]
    /\ LET r == create_filled_sif_return(filled_pdf[c][1], report'[c], debug[c])
       IN result' = [result EXCEPT
                        ![c] = IF r.kind = "raised"
                               THEN create_sif_from_cms_except(r.exc) ELSE r]
    /\ pc' = [pc EXCEPT ![c] = "done"]
    /\ UNCHANGED <<session, inputs, extracted_text, needs_ocr, ocr_calls, ocr_text, text,
                   cms_data, sif_values, write_errors, filled_pdf>>

NextPair ==
    \E c \in Calls :
        \/ ExtractTextOf(c)
        \/ OcrOf(c)
        \/ ParseOf(c)
        \/ ProjectOf(c)
        \/ FillOf(c)
        \/ MakeReportOf(c)

SpecPair == InitPair /\ [][NextPair]_vars

\* what call c returns when it runs alone, start to end, with the OCR
\* result and the failing field writes it met
RunAlone(c) ==
    convert_cms_to_sif(cms_pdf_bytes[c], sif_template_bytes[c], custom_mapping[c],
                       flatten[c], debug[c],
                       IF ocr_text[c] = None THEN <<>> ELSE ocr_text[c][1],
                       write_errors[c])

\* C22: conversions share no mutable state and never change their inputs:
\* no step of either call changes a source document, template, custom
\* mapping, flatten or debug argument, the record handed to
\* create_filled_sif stays as parsed, and however the stages of two calls
\* interleave each call ends with the result it has when run alone.
C22_IndependentConversions ==
    /\ [](\A c \in Calls : (pc[c] = "done") => result[c] = RunAlone(c))
    /\ [][/\ inputs' = inputs
          /\ \A c \in Calls :
                (pc[c] \in {"project", "fill", "report", "done"}) =>
                    cms_data'[c] = cms_data[c]]_vars

\* both calls ended, with different arguments, after the second call
\* projected between the projection and the fill of the first
C22_Witness ==
    /\ pc = [c \in Calls |-> "done"]
    /\ custom_mapping[1] = None
    /\ custom_mapping[2] # None
    /\ result[1].kind = "returned"
    /\ result[2].kind = "returned"
    /\ result[1] # result[2]
    /\ DOMAIN sif_values[1] # DOMAIN sif_values[2]

\* ---------------------------------------------------------------------
\* Specification SpecUI: the page session of main_script.  Handlers run
\* to completion one at a time; extract_cms is a coroutine that gives up
\* control at `await performOCR(cms_bytes)` and runs its remainder when
\* the OCR call settles.  At most one extract_cms is under way.
\* generate_sif reads the page and the templates and assigns to none of
\* the session's globals or buttons; it is left out.
\*   pc             "idle", or "await_ocr" while extract_cms is suspended
\*   cms_pdf_bytes  the bytes handed to performOCR by the call under way
\* ---------------------------------------------------------------------

\* check_ready_to_generate(): the page after the call
check_ready_to_generate(data, default_sif, user_sif, page) ==
    IF data # None /\ (default_sif # None \/ user_sif # None)
    THEN [page EXCEPT !.generate_btn_disabled = FALSE]
    ELSE page

InitUI ==
    /\ pc = "idle"
    /\ SessionStart
    /\ cms_pdf_bytes = NoDocument
    /\ sif_template_bytes = NoTemplate
    /\ custom_mapping = None
    /\ flatten = FALSE
    /\ debug = TRUE
    /\ cms_data = None
    /\ LocalsBlank

\* load_sif_template(), scheduled at start-up and by clear_all: the fetch
\* answers ok or not
LoadSifTemplate ==
    /\ sif_load_pending
    /\ \E ok \in BOOLEAN :
          sif_bytes' = IF ok
                       THEN Some(Template(TRUE, TRUE, TRUE, TRUE, [f \in {"Date"} |-> <<>>]))
                       ELSE sif_bytes
    /\ sif_load_pending' = FALSE
    /\ UNCHANGED <<pc, inputs, cms_bytes, extracted_cms_data, user_sif_bytes, document,
                   extracted_text, needs_ocr, ocr_calls, ocr_text, text, cms_data,
                   sif_values, write_errors, filled_pdf, report, result>>

\* handle_cms_upload's on_load: cms_bytes = ...; check_ready_to_extract()
HandleCmsUpload ==
    /\ \E pages \in {<<PageNone>>, <<PageText(TextShortDated)>>} :
          cms_bytes' = Some([opens |-> TRUE, pages |-> pages])
    /\ document' = [document EXCEPT !.extract_btn_disabled = FALSE]
    /\ UNCHANGED <<pc, inputs, sif_bytes, extracted_cms_data, user_sif_bytes,
                   sif_load_pending,
                   extracted_text, needs_ocr, ocr_calls, ocr_text, text, cms_data,
                   sif_values, write_errors, filled_pdf, report, result>>

\* handle_sif_upload's on_load: user_sif_bytes = ...; check_ready_to_generate()
HandleSifUpload ==
    /\ user_sif_bytes' = Some(Template(TRUE, TRUE, TRUE, TRUE, [f \in {"A"} |-> <<>>]))
    /\ document' = check_ready_to_generate(extracted_cms_data, sif_bytes,
                                           user_sif_bytes', document)
    /\ UNCHANGED <<pc, inputs, cms_bytes, sif_bytes, extracted_cms_data,
                   sif_load_pending,
                   extracted_text, needs_ocr, ocr_calls, ocr_text, text, cms_data,
                   sif_values, write_errors, filled_pdf, report, result>>

\* extract_cms up to `await performOCR(cms_bytes)`; the button can be
\* clicked only while it is enabled
ExtractCmsClick ==
    /\ pc = "idle"
    /\ ~document.extract_btn_disabled
    /\ cms_pdf_bytes' = IF cms_bytes = None THEN NoDocument ELSE cms_bytes[1]
    /\ pc' = "await_ocr"
    /\ UNCHANGED <<session, sif_template_bytes, custom_mapping, flatten, debug,
                   extracted_text, needs_ocr, ocr_calls, ocr_text, text, cms_data,
                   sif_values, write_errors, filled_pdf, report, result>>

\* extract_cms after the await: performOCR settled with a text, or was
\* rejected (except branch: status only)
ExtractCmsResume ==
    /\ pc = "await_ocr"
    /\ \/ /\ \E returned \in {<<>>, OcrDated, OcrUndated} :
                /\ ocr_text' = Some(returned)
                /\ text' = returned
          /\ cms_data' = parse_cms_report(text')
          \* if not extracted_cms_data.service_date: ... = datetime.now().strftime('%m/%d/%Y')
          /\ extracted_cms_data' =
                Some(IF Truthy(cms_data'["service_date"]) THEN cms_data'
                     ELSE [cms_data' EXCEPT !["service_date"] =
                             Some(<<"1","1","/","0","1","/","2","0","2","6">>)])
          /\ document' = check_ready_to_generate(extracted_cms_data', sif_bytes,
                                                 user_sif_bytes, document)
          /\ result' = Returned("Successfully extracted")
       \/ /\ result' = Raised("Exception", "Error extracting CMS data")
          /\ UNCHANGED <<ocr_text, text, cms_data, extracted_cms_data, document>>
    /\ pc' = "idle"
    /\ UNCHANGED <<inputs, cms_bytes, sif_bytes, user_sif_bytes, sif_load_pending,
                   extracted_text, needs_ocr, ocr_calls, sif_values, write_errors,
                   filled_pdf, report>>

\* clear_all: a plain handler; it does not touch a suspended extract_cms
clear_all ==
    /\ cms_bytes' = None
    /\ extracted_cms_data' = None
    /\ user_sif_bytes' = None
    /\ document' = [extract_btn_disabled |-> TRUE, generate_btn_disabled |-> TRUE]
    /\ sif_load_pending' = TRUE
    /\ UNCHANGED <<pc, inputs, sif_bytes,
                   extracted_text, needs_ocr, ocr_calls, ocr_text, text, cms_data,
                   sif_values, write_errors, filled_pdf, report, result>>

NextUI ==
    \/ LoadSifTemplate
    \/ HandleCmsUpload
    \/ HandleSifUpload
    \/ ExtractCmsClick
    \/ ExtractCmsResume
    \/ clear_all

SpecUI == InitUI /\ [][NextUI]_vars

\* the state clear_all leaves: no extracted record, no source bytes,
\* generate button disabled
Cleared ==
    /\ extracted_cms_data = None
    /\ cms_bytes = None
    /\ document.generate_btn_disabled

\* C23: an extraction abandoned at the OCR suspension point leaves no side
\* effects: when the session is in the cleared state while extract_cms
\* awaits the OCR result, the step in which the OCR call completes leaves
\* the session in the cleared state.
C23_AbandonedExtractionLeavesNothing ==
    [][(pc = "await_ocr" /\ Cleared /\ pc' = "idle") => Cleared']_vars

====
